---------------------------- MODULE Spec2Model ----------------------------
(***************************************************************************)
(* Scarcity: nullifier gossip, transfer validator and token lifecycle.     *)
(*                                                                         *)
(* The sources carry unresolved merge markers (token.ts, validator.ts).    *)
(* Inside a conflict region the model follows the incoming side            *)
(* (e2fb2463...), the later revision: nullifier = hash(secret, id),        *)
(* age gate, double-spend threshold 0.5, peer score peers/10.  gossip.ts   *)
(* holds two copies of the class; the model follows the first (lines       *)
(* 1-265), the one with maxNullifierAge.                                   *)
(*                                                                         *)
(* Numbers: a gossip confidence is the exact rational <<num, den>>; a      *)
(* validator confidence is an IEEE double, held exactly as a whole number  *)
(* of units of 1/ConfUnit and the double's distance from it.               *)
(***************************************************************************)
EXTENDS Integers, Sequences, FiniteSets, Bags, TLC

VARIABLES
    now,              \* Date.now() of the node
    seenNullifiers,   \* NullifierGossip.seenNullifiers, in Map insertion order
    peerConnections,  \* NullifierGossip.peerConnections
    connected,        \* the peers whose isConnected() is true
    receiveHandler,   \* whether NullifierGossip.receiveHandler is set
    sent,             \* bag of the messages handed to peer.send that went out
    receiving,        \* bag of the onReceive invocations, each with its position
    publishResult,    \* outcome of the last direct gossip.publish call
    pruned,           \* what the last run of the prune timer did
    tokens,           \* the ScarbuckToken instances
    transfers,        \* the transfer() invocations, each with its position
    waitTime,         \* TransferValidator.waitTime
    validations,      \* the validator invocations, each with its position
    confIn,           \* arguments and result of a computeConfidence call
    witness,          \* the WitnessAdapter, its gateway and the federation's log
    freebird,         \* the FreebirdAdapter, its issuers and the calls on it
    receives,         \* the ScarbuckToken.receive invocations
    merges,           \* the ScarbuckToken.merge invocations
    htlcs,            \* the time-locked packages and the calls on them
    transport,        \* the HyperTokenAdapter and its socket
    network,          \* a network of gossip nodes and the messages in flight
    cliConfig,        \* the ConfigManager, DEFAULT_CONFIG and the config file
    minConfidence     \* the validator's threshold (TransferValidator.minConfidence)

vars == <<now, seenNullifiers, peerConnections, connected, receiveHandler, sent,
          receiving, publishResult, pruned, tokens, transfers, waitTime,
          validations, confIn, witness, freebird, receives, merges, htlcs,
          transport, network, cliConfig, minConfidence>>

\* The variables of the scenarios that stand apart from the node, and the
\* validator's threshold, which only setMinConfidence changes.
extVars == <<merges, htlcs, transport, network, cliConfig, minConfidence>>

gossipVars == <<seenNullifiers, peerConnections, connected, receiveHandler, sent,
                receiving, publishResult, pruned>>

-----------------------------------------------------------------------------
(* Bounds of the model *)

MaxTime == 1

MaxNullifiers == 1

MaxNullifierAge == 0

MaxTokenAge == 0

MaxRecv == 1

MaxDeliveries == 3

MaxSent == 3

NumPeers == 1

MaxTransfers == 2

Null == "null"

\* An absent Uint8Array and an absent Attestation (undefined in the code).
NoBytes == <<>>

NoProof == [hash |-> <<>>, timestamp |-> 0, signatures |-> "absent"]

Min(a, b) == IF a <= b THEN a ELSE b

Max(a, b) == IF a >= b THEN a ELSE b

-----------------------------------------------------------------------------
(* Crypto (types.ts) *)

\* TextEncoder().encode: a string is kept as the sequence of its UTF-8 bytes.
Utf8(str) == str

\* DataView.setBigUint64(0, BigInt(n), false): 8 bytes, big-endian.
Be64(n) ==
    <<0, 0, 0, 0>> \o [i \in 1..4 |-> (n \div (256 ^ (4 - i))) % 256]

\* One input of Crypto.hash as bytes: kind is the typeof the code switches on.
EncodeInput(input) ==
    CASE input.kind = "string" -> Utf8(input.value)
      [] input.kind = "number" -> Be64(input.value)
      [] OTHER -> input.value

RECURSIVE ConcatBytes(_)
ConcatBytes(parts) ==
    IF parts = <<>> THEN <<>> ELSE Head(parts) \o ConcatBytes(Tail(parts))

\* sha256 as a collision-free digest: the digest of a byte string is a byte
\* string that no other input has.
Sha256(bytes) == <<Len(bytes) % 256>> \o bytes

Hash(inputs) ==
    Sha256(ConcatBytes([i \in 1..Len(inputs) |-> EncodeInput(inputs[i])]))

Bytes(b) == [kind |-> "bytes", value |-> b]

Str(s) == [kind |-> "string", value |-> s]

Num(n) == [kind |-> "number", value |-> n]

\* bytesToHex: two hex digits per byte.
ToHex(bytes) ==
    [i \in 1..(2 * Len(bytes)) |->
        IF i % 2 = 1 THEN bytes[(i + 1) \div 2] \div 16
                     ELSE bytes[i \div 2] % 16]

generateNullifier(secret, tokenId, timestamp) ==
    Hash(<<Bytes(secret), Str(tokenId), Num(timestamp)>>)

hashTransferPackage(pkg) ==
    ToHex(Hash(<<Str(pkg.tokenId), Num(pkg.amount), Bytes(pkg.commitment),
                 Bytes(pkg.nullifier)>>))

-----------------------------------------------------------------------------
(* The data of the model *)

Secrets == {<<1>>, <<2>>}

TokenIds == {<<97>>}

Amounts == {100}

Commitments == {<<7>>}

Peers == 1..NumPeers

\* The nullifiers a message can carry: those of the model's tokens.
Nullifiers == {Hash(<<Bytes(s), Str(t)>>) : s \in Secrets, t \in TokenIds}

Attestation(h, t, sigs) == [hash |-> h, timestamp |-> t, signatures |-> sigs]

\* WitnessClient.verify: the federation accepts the attestations it signed.
WitnessVerify(proof) == proof.signatures = "genuine"

-----------------------------------------------------------------------------
(* NullifierGossip (gossip.ts, first copy) *)

Has(seen, key) == \E i \in DOMAIN seen : seen[i].key = key

IndexOf(seen, key) == CHOOSE i \in DOMAIN seen : seen[i].key = key

\* Map.set: a new key goes to the end, a present key keeps its place.
MapSet(seen, key, rec) ==
    IF Has(seen, key)
    THEN [seen EXCEPT ![IndexOf(seen, key)] = rec]
    ELSE Append(seen, rec)

\* A record whose tally does not count the first sighting.
NullifierRecord_uncounted(n, proof, t) ==
    [key |-> ToHex(n), nullifier |-> n, proof |-> proof, firstSeen |-> t,
     peerCount |-> 0]

NullifierRecord(n, proof, t) ==
    [key |-> ToHex(n), nullifier |-> n, proof |-> proof, firstSeen |-> t,
     peerCount |-> 1]

NullifierMsg(n, proof, t) ==
    [type |-> "nullifier", nullifier |-> n, proof |-> proof, timestamp |-> t]

\* The entries of peerConnections that broadcast sends to: filter(isConnected).
BroadcastTargets == SelectSeq(peerConnections, LAMBDA p : p \in connected)

RECURSIVE SendAll(_, _, _)
SendAll(targets, failing, msg) ==
    IF targets = <<>> THEN EmptyBag
    ELSE (IF Head(targets) \in failing THEN EmptyBag
          ELSE SetToBag({[to |-> Head(targets), msg |-> msg]}))
         (+) SendAll(Tail(targets), failing, msg)

\* broadcast: peer.send on every connected peer; failing are the peers whose
\* send rejects.  The result is what went out.
broadcast(msg, failing) == sent (+) SendAll(BroadcastTargets, failing, msg)

\* Whether broadcast rejects: a send failed and skipFailed is false.
broadcastThrows(failing, skipFailed) ==
    /\ ~skipFailed
    /\ \E i \in DOMAIN BroadcastTargets : BroadcastTargets[i] \in failing

\* The sets of failing peers the model tries.
FailChoices == {{}} \cup {{p} : p \in Peers}

\* A publish without the alarm.
publishRejects_never(n) == FALSE

\* publish, line 55: the double-spend alarm.
publishRejects(n) == Has(seenNullifiers, ToHex(n))

\* A publish that broadcasts without recording the nullifier locally.
publishInsert_skipped(n, proof) == seenNullifiers

\* publish, lines 60-65.
publishInsert(n, proof) ==
    MapSet(seenNullifiers, ToHex(n), NullifierRecord(n, proof, now))

\* The model stops sending once MaxSent messages have gone out.
CanSend == BagCardinality(sent) < MaxSent

\* A confidence that also grows with the age of the record.
checkNullifier_aged(n) ==
    IF ~Has(seenNullifiers, ToHex(n)) THEN <<0, 1>>
    ELSE LET rec == seenNullifiers[IndexOf(seenNullifiers, ToHex(n))]
             den == Max(Len(peerConnections), 1)
         IN  IF rec.peerCount >= den \/ now > rec.firstSeen THEN <<1, 1>>
             ELSE <<rec.peerCount, den>>

\* checkNullifier: 0 when absent, else min(peerCount / max(peers, 1), 1).
checkNullifier(n) ==
    IF ~Has(seenNullifiers, ToHex(n)) THEN <<0, 1>>
    ELSE LET pc  == seenNullifiers[IndexOf(seenNullifiers, ToHex(n))].peerCount
             den == Max(Len(peerConnections), 1)
         IN  IF pc >= den THEN <<1, 1>> ELSE <<pc, den>>

\* The model stops publishing while MaxPending publish calls are unsettled.
MaxPending == 1

\* No direct publish call has been made.
NoPublish == [nullifier |-> NoBytes, result |-> Null, pending |-> EmptyBag]

\* A direct call of gossip.publish(n, proof), up to its await of broadcast: the
\* alarm rejects at once; otherwise the record is stored, the sends are issued
\* and the call is pending.  failing are the peers whose send will reject.
ApiPublish(n, proof, failing) ==
    /\ IF publishRejects(n)
       THEN /\ publishResult' =
                 [publishResult EXCEPT !.nullifier = n, !.result = "DoubleSpend"]
            /\ UNCHANGED <<seenNullifiers, sent>>
       ELSE /\ CanSend
            /\ BagCardinality(publishResult.pending) < MaxPending
            /\ seenNullifiers' = publishInsert(n, proof)
            /\ sent' = broadcast(NullifierMsg(n, proof, now), failing)
            /\ publishResult' =
                 [publishResult EXCEPT
                    !.pending =
                       @ (+) SetToBag({[nullifier |-> n,
                                        result |->
                                           IF broadcastThrows(failing, FALSE)
                                           THEN "SendFailed" ELSE "ok"]})]
    /\ UNCHANGED <<now, peerConnections, connected, receiveHandler, receiving,
                   pruned, tokens, transfers, waitTime, validations, confIn, witness, freebird,
                   receives,
                   extVars>>

\* The sends of a pending publish settle: publish resolves, or rejects with
\* the error of the failed send.
ApiPublishSettled(p) ==
    /\ BagIn(p, publishResult.pending)
    /\ publishResult' =
         [nullifier |-> p.nullifier, result |-> p.result,
          pending |-> publishResult.pending (-) SetToBag({p})]
    /\ UNCHANGED <<now, seenNullifiers, peerConnections, connected,
                   receiveHandler, sent, receiving, pruned, tokens, transfers,
                   waitTime, validations, confIn, witness, freebird, receives,
                   extVars>>

BagAdd(B, e) == B (+) SetToBag({e})

BagMove(B, old, new) == (B (-) SetToBag({old})) (+) SetToBag({new})

\* onReceive up to its first await: the type check, then witness.verify is called.
OnReceiveStart(m, cap) ==
    /\ BagCardinality(receiving) < cap
    /\ receiving' =
         BagAdd(receiving,
                [msg |-> m,
                 pc |-> IF m.type # "nullifier" \/ m.nullifier = NoBytes
                           \/ m.proof = NoProof
                        THEN "done" ELSE "verify",
                 existing |-> "unset"])
    /\ UNCHANGED <<now, seenNullifiers, peerConnections, connected,
                   receiveHandler, sent, publishResult, pruned, tokens,
                   transfers, waitTime, validations, confIn, witness, freebird,
                   receives,
                   extVars>>

AfterSighting == IF receiveHandler THEN "handler" ELSE "done"

\* onReceive from the return of witness.verify to the next await.
OnReceiveVerified(h, failing) ==
    /\ BagIn(h, receiving)
    /\ h.pc = "verify"
    /\ IF ~WitnessVerify(h.msg.proof)
       THEN /\ receiving' = BagMove(receiving, h, [h EXCEPT !.pc = "done"])
            /\ UNCHANGED <<seenNullifiers, sent>>
       ELSE LET key == ToHex(h.msg.nullifier) IN
            IF ~Has(seenNullifiers, key)
            THEN /\ CanSend
                 /\ seenNullifiers' =
                      MapSet(seenNullifiers, key,
                             NullifierRecord(h.msg.nullifier, h.msg.proof, now))
                 /\ sent' = broadcast(h.msg, failing)
                 /\ receiving' =
                      BagMove(receiving, h,
                              [h EXCEPT !.pc = "broadcast", !.existing = "absent"])
            ELSE /\ seenNullifiers' =
                      [seenNullifiers EXCEPT
                         ![IndexOf(seenNullifiers, key)].peerCount = @ + 1]
                 /\ receiving' =
                      BagMove(receiving, h,
                              [h EXCEPT !.pc = AfterSighting,
                                        !.existing = "present"])
                 /\ UNCHANGED sent
    /\ UNCHANGED <<now, peerConnections, connected, receiveHandler,
                   publishResult, pruned, tokens, transfers, waitTime,
                   validations, confIn, witness, freebird,
                   receives,
                   extVars>>

\* onReceive when the epidemic broadcast (skipFailed = true) has settled.
OnReceiveBroadcastDone(h) ==
    /\ BagIn(h, receiving)
    /\ h.pc = "broadcast"
    /\ receiving' = BagMove(receiving, h, [h EXCEPT !.pc = AfterSighting])
    /\ UNCHANGED <<now, seenNullifiers, peerConnections, connected,
                   receiveHandler, sent, publishResult, pruned, tokens,
                   transfers, waitTime, validations, confIn, witness, freebird,
                   receives,
                   extVars>>

\* onReceive when the user's receive handler has returned.
OnReceiveHandlerDone(h) ==
    /\ BagIn(h, receiving)
    /\ h.pc = "handler"
    /\ receiving' = BagMove(receiving, h, [h EXCEPT !.pc = "done"])
    /\ UNCHANGED <<now, seenNullifiers, peerConnections, connected,
                   receiveHandler, sent, publishResult, pruned, tokens,
                   transfers, waitTime, validations, confIn, witness, freebird,
                   receives,
                   extVars>>

\* setReceiveHandler(handler): registers the handler, at any moment.
SetReceiveHandler ==
    /\ ~receiveHandler
    /\ receiveHandler' = TRUE
    /\ UNCHANGED <<now, seenNullifiers, peerConnections, connected, sent,
                   receiving, publishResult, pruned, tokens, transfers,
                   waitTime, validations, confIn, witness, freebird, receives,
                   extVars>>

AddPeer(p) ==
    /\ Len(peerConnections) < NumPeers
    /\ peerConnections' = Append(peerConnections, p)
    /\ UNCHANGED <<now, seenNullifiers, connected, receiveHandler, sent,
                   receiving, publishResult, pruned, tokens, transfers,
                   waitTime, validations, confIn, witness, freebird,
                   receives,
                   extVars>>

\* findIndex, then splice(index, 1).
RemoveAt(s, i) == SubSeq(s, 1, i - 1) \o SubSeq(s, i + 1, Len(s))

RemovePeer(p) ==
    /\ \E i \in DOMAIN peerConnections : peerConnections[i] = p
    /\ LET idx == CHOOSE i \in DOMAIN peerConnections :
                     /\ peerConnections[i] = p
                     /\ \A j \in 1..(i - 1) : peerConnections[j] # p
       IN  peerConnections' = RemoveAt(peerConnections, idx)
    /\ UNCHANGED <<now, seenNullifiers, connected, receiveHandler, sent,
                   receiving, publishResult, pruned, tokens, transfers,
                   waitTime, validations, confIn, witness, freebird,
                   receives,
                   extVars>>

\* The reputation of a peer as the node keeps it.  This NullifierGossip has no
\* peerStats map and onReceive takes no peer id: no peer has statistics, at any
\* time.
NoStats == [known |-> FALSE, score |-> 0, invalidProofs |-> 0]

getPeerStats(p) == NoStats

\* A peer's connection comes up or goes down (PeerConnection.isConnected).
SetConnected(p) ==
    /\ connected' = IF p \in connected THEN connected \ {p}
                    ELSE connected \cup {p}
    /\ UNCHANGED <<now, seenNullifiers, peerConnections, receiveHandler, sent,
                   receiving, publishResult, pruned, tokens, transfers,
                   waitTime, validations, confIn, witness, freebird,
                   receives,
                   extVars>>

\* Array.sort by firstSeen, which is stable: insertion sort.
RECURSIVE InsertByFirstSeen(_, _)
InsertByFirstSeen(sorted, e) ==
    IF sorted = <<>> THEN <<e>>
    ELSE IF Head(sorted).firstSeen <= e.firstSeen
         THEN <<Head(sorted)>> \o InsertByFirstSeen(Tail(sorted), e)
         ELSE <<e>> \o sorted

RECURSIVE SortByFirstSeen(_)
SortByFirstSeen(entries) ==
    IF entries = <<>> THEN <<>>
    ELSE InsertByFirstSeen(SortByFirstSeen(SubSeq(entries, 1, Len(entries) - 1)),
                           entries[Len(entries)])

\* The sweep of startPruning, lines 225-230.
PruneByAge(seen, cutoff) == SelectSeq(seen, LAMBDA r : ~(r.firstSeen < cutoff))

\* A safety valve that evicts the newest entries.
PruneByCap_newest(seen) ==
    IF Len(seen) > MaxNullifiers
    THEN LET sorted   == SortByFirstSeen(seen)
             toRemove == SubSeq(sorted, MaxNullifiers + 1, Len(sorted))
             gone     == {toRemove[i].key : i \in DOMAIN toRemove}
         IN  SelectSeq(seen, LAMBDA r : r.key \notin gone)
    ELSE seen

\* The safety valve of startPruning, lines 236-246.
PruneByCap(seen) ==
    IF Len(seen) > MaxNullifiers
    THEN LET toRemove == SubSeq(SortByFirstSeen(seen), 1,
                                Len(seen) - MaxNullifiers)
             gone     == {toRemove[i].key : i \in DOMAIN toRemove}
         IN  SelectSeq(seen, LAMBDA r : r.key \notin gone)
    ELSE seen

\* One run of the prune timer.
Prune ==
    /\ LET aged == PruneByAge(seenNullifiers, now - MaxNullifierAge)
           kept == PruneByCap(aged)
       IN  /\ seenNullifiers' = kept
           /\ pruned' = [byAge |-> Len(seenNullifiers) - Len(aged),
                         byCap |-> Len(aged) - Len(kept)]
    /\ UNCHANGED <<now, peerConnections, connected, receiveHandler, sent,
                   receiving, publishResult, tokens, transfers, waitTime,
                   validations, confIn, witness, freebird,
                   receives,
                   extVars>>

\* The age limit and the clock's range of the node whose sweeps are examined:
\* its entries can outlive one tick.
SweepAge == 1

MaxSweepTime == 2

\* One run of the prune timer on a node configured with maxNullifierAge
\* SweepAge.
Sweep ==
    /\ LET aged == PruneByAge(seenNullifiers, now - SweepAge)
           kept == PruneByCap(aged)
       IN  /\ seenNullifiers' = kept
           /\ pruned' = [byAge |-> Len(seenNullifiers) - Len(aged),
                         byCap |-> Len(aged) - Len(kept)]
    /\ UNCHANGED <<now, peerConnections, connected, receiveHandler, sent,
                   receiving, publishResult, tokens, transfers, waitTime,
                   validations, confIn, witness, freebird, receives, extVars>>

\* The clock of that node advances.
SweepTick ==
    /\ now < MaxSweepTime
    /\ now' = now + 1
    /\ UNCHANGED <<seenNullifiers, peerConnections, connected, receiveHandler,
                   sent, receiving, publishResult, pruned, tokens, transfers,
                   waitTime, validations, confIn, witness, freebird, receives,
                   extVars>>

\* The clock advances.
Tick ==
    /\ now < MaxTime
    /\ now' = now + 1
    /\ UNCHANGED <<seenNullifiers, peerConnections, connected, receiveHandler,
                   sent, receiving, publishResult, pruned, tokens, transfers,
                   waitTime, validations, confIn, witness, freebird,
                   receives,
                   extVars>>

-----------------------------------------------------------------------------
(* WitnessAdapter (integrations/witness.ts, second copy) *)

\* UTF-8 of 'witness-1', 'witness-2', 'witness-3'.
WitnessId(i) == <<119, 105, 116, 110, 101, 115, 115, 45, 48 + i>>

WitnessIds == [i \in 1..3 |-> WitnessId(i)]

\* 24 * 60 * 60 * 1000.
AttestationMaxAge == 86400000

\* A signature of the federation's witnesses over (hash, timestamp): a value
\* that no hex digest is.
FederationSign(signers, hash, t) ==
    <<255>> \o ConcatBytes(signers) \o hash \o Be64(t)

\* The SignedAttestation of the Witness API in its two forms: MultiSig (one
\* signature per witness) and Aggregated (one signature, many signers).
SignedAttestation(form, hash, t) ==
    [form |-> form,
     attestation |-> [hash |-> hash, timestamp |-> t],
     signatures |->
        IF form = "aggregated" THEN <<FederationSign(WitnessIds, hash, t)>>
        ELSE [i \in DOMAIN WitnessIds |->
                FederationSign(<<WitnessIds[i]>>, hash, t)],
     signers |-> WitnessIds]

NoRaw ==
    [form |-> "none", attestation |-> [hash |-> <<>>, timestamp |-> 0],
     signatures |-> <<>>, signers |-> <<>>]

\* timestamp, lines 342-371: the gateway's response as an Attestation.
RealAttestation(data, hash) ==
    [hash |-> IF data.attestation.hash # <<>> THEN data.attestation.hash
              ELSE hash,
     timestamp |-> IF data.attestation.timestamp # 0
                   THEN data.attestation.timestamp ELSE now,
     signatures |-> data.signatures,
     witnessIds |-> data.signers,
     raw |-> data]

\* timestamp, lines 379-388: the simulated local attestation.
FallbackAttestation(hash) ==
    [hash |-> hash,
     timestamp |-> now,
     signatures |-> [i \in DOMAIN WitnessIds |->
                       ToHex(Hash(<<Str(hash), Str(WitnessIds[i])>>))],
     witnessIds |-> WitnessIds,
     raw |-> NoRaw]

\* verify, lines 405-416: what is posted to /v1/verify.
VerifyBody(att) ==
    IF att.raw.form # "none" THEN att.raw
    ELSE [form |-> "multi",
          attestation |-> [hash |-> att.hash, timestamp |-> att.timestamp],
          signatures |-> att.signatures,
          signers |-> att.witnessIds]

\* The gateway's answer to /v1/verify: whether the signatures are those of the
\* federation's witnesses over the attestation, at least two of them.
GatewayValid(signed) ==
    LET a == signed.attestation
    IN  IF signed.form = "aggregated"
        THEN /\ Len(signed.signers) >= 2
             /\ signed.signatures =
                  <<FederationSign(signed.signers, a.hash, a.timestamp)>>
        ELSE /\ Len(signed.signatures) >= 2
             /\ Len(signed.signers) = Len(signed.signatures)
             /\ \A i \in DOMAIN signed.signatures :
                   signed.signatures[i] =
                      FederationSign(<<signed.signers[i]>>, a.hash, a.timestamp)

\* verifyBLSAggregatedSignature: the pairing check of the aggregated signature
\* against the sum of the named signers' public keys, however many they are.
verifyBLSAggregatedSignature(signed) ==
    signed.signatures =
       <<FederationSign(signed.signers, signed.attestation.hash,
                        signed.attestation.timestamp)>>

\* verifyBLSLocal: "null" when the attestation is not in the aggregated form,
\* the config carries no witness public keys, or a signer has no key in it.
verifyBLSLocal(att, config) ==
    IF att.raw.form # "aggregated" THEN "null"
    ELSE IF config # "keys" THEN "null"
    ELSE IF \E i \in DOMAIN att.raw.signers :
               \A j \in DOMAIN WitnessIds : WitnessIds[j] # att.raw.signers[i]
    THEN "null"
    ELSE IF verifyBLSAggregatedSignature(att.raw) THEN "true" ELSE "false"

\* verify, lines 441-460: the structural validation.
StructurallyValid(att) ==
    /\ att.hash # <<>>
    /\ att.timestamp # 0
    /\ Len(att.signatures) >= 2
    /\ Len(att.witnessIds) = Len(att.signatures)
    /\ now - att.timestamp <= AttestationMaxAge

\* The adapter (config), its gateway as the environment sets it (gateway: "up",
\* "error" for a non-ok response, "down" for a failed fetch), the hashes the
\* federation has attested (log), the one call in flight, the attestation the
\* last timestamp call returned (issued), and one fact about the past: whether
\* an init found the gateway unreachable.
NoAttestation ==
    [hash |-> <<>>, timestamp |-> 0, signatures |-> <<>>, witnessIds |-> <<>>,
     raw |-> NoRaw]

\* A call of the adapter: asked is whether it sent its request to the gateway,
\* path is what produced its result.
WitnessCall(op, arg, att) ==
    [op |-> op, pc |-> "init", arg |-> arg, att |-> att, asked |-> FALSE,
     path |-> "none", result |-> Null]

NoWitnessCall == [WitnessCall("none", <<>>, NoAttestation) EXCEPT !.pc = "idle"]

IdleWitness ==
    [config |-> "none", gateway |-> "down", log |-> {}, call |-> NoWitnessCall,
     issued |-> NoAttestation, unreachableSeen |-> FALSE]

\* The forms of configuration a gateway serves: with or without the witnesses'
\* public keys.
Configs == {"plain", "keys"}

Gateways == {"up", "error", "down"}

\* The adapter after the federation attested a hash on its request: nothing
\* changes when the adapter has no config or its gateway does not answer.
federationLog(hash) ==
    IF witness.config # "none" /\ witness.gateway = "up"
    THEN [witness EXCEPT !.log = @ \cup {hash}]
    ELSE witness

\* The gateway goes up or down, or starts answering with an error status.
GatewayChange(g) ==
    /\ g # witness.gateway
    /\ witness' = [witness EXCEPT !.gateway = g]
    /\ UNCHANGED <<now, gossipVars, tokens, transfers, waitTime, validations,
                   confIn, freebird, receives,
                   extVars>>

\* timestamp(hash), verify(attestation), checkNullifier(nullifier),
\* getAttestation(hash) or getConfig() is called: each starts with
\* await this.init().
WitnessStart(op, arg, att) ==
    /\ witness.call.pc \in {"idle", "done"}
    /\ witness' = [witness EXCEPT !.call = WitnessCall(op, arg, att)]
    /\ UNCHANGED <<now, gossipVars, tokens, transfers, waitTime, validations,
                   confIn, freebird, receives,
                   extVars>>

\* init: nothing when the config is loaded, else the fetch of /v1/config, whose
\* failure leaves this.config null.
WitnessInit(config) ==
    /\ witness.call.pc = "init"
    /\ witness' =
         [witness EXCEPT
            !.call.pc = "request",
            !.config = IF witness.config # "none" THEN @
                       ELSE IF witness.gateway = "up" THEN config ELSE "none",
            !.unreachableSeen =
               @ \/ (witness.config = "none" /\ witness.gateway # "up")]
    /\ UNCHANGED <<now, gossipVars, tokens, transfers, waitTime, validations,
                   confIn, freebird, receives,
                   extVars>>

\* timestamp after init: the gateway's attestation in the form it chose, or the
\* simulated one.
TimestampDone(form) ==
    /\ witness.call.pc = "request"
    /\ witness.call.op = "timestamp"
    /\ form \in {"multi", "aggregated"}
    /\ LET hash  == witness.call.arg
           real  == witness.config # "none" /\ witness.gateway = "up"
           att   == IF real
                    THEN RealAttestation(SignedAttestation(form, hash, now), hash)
                    ELSE FallbackAttestation(hash)
       IN  witness' =
             [witness EXCEPT
                !.log = federationLog(hash).log,
                !.issued = att,
                !.call = [@ EXCEPT !.pc = "done", !.att = att,
                                   !.asked = witness.config # "none",
                                   !.path = IF real THEN "gateway"
                                            ELSE "fallback",
                                   !.result = "attestation"]]
    /\ UNCHANGED <<now, gossipVars, tokens, transfers, waitTime, validations,
                   confIn, freebird, receives,
                   extVars>>

\* The result of verify after init, and what produced it.
verifyOutcome(att, config, gateway) ==
    LET structural ==
          [path |-> "structural", valid |-> StructurallyValid(att)]
    IN  IF config = "none" THEN structural
        ELSE IF gateway = "up"
        THEN [path |-> "gateway", valid |-> GatewayValid(VerifyBody(att))]
        ELSE IF gateway = "error" THEN structural
        ELSE IF att.raw.form # "none" /\ verifyBLSLocal(att, config) # "null"
        THEN [path |-> "local", valid |-> verifyBLSLocal(att, config) = "true"]
        ELSE structural

VerifyDone ==
    /\ witness.call.pc = "request"
    /\ witness.call.op = "verify"
    /\ LET out == verifyOutcome(witness.call.att, witness.config,
                                witness.gateway)
       IN  witness' =
             [witness EXCEPT
                !.call = [@ EXCEPT !.pc = "done",
                                   !.asked = witness.config # "none",
                                   !.path = out.path,
                                   !.result = IF out.valid THEN "true"
                                              ELSE "false"]]
    /\ UNCHANGED <<now, gossipVars, tokens, transfers, waitTime, validations,
                   confIn, freebird, receives,
                   extVars>>

\* WitnessAdapter.checkNullifier after init: the lookup of toHex(nullifier)
\* among the federation's timestamps.  found is the confidence when the
\* gateway has one, 0.5 or 1 by the count of signatures in its answer.
witnessCheckNullifier(nullifier, found) ==
    IF witness.config = "none" \/ witness.gateway # "up" THEN <<0, 1>>
    ELSE IF ToHex(nullifier) \notin witness.log THEN <<0, 1>>
    ELSE found

FoundAnswers == {<<1, 2>>, <<1, 1>>}

CheckNullifierDone(found) ==
    /\ witness.call.pc = "request"
    /\ witness.call.op = "checkNullifier"
    /\ witness' =
         [witness EXCEPT
            !.call = [@ EXCEPT
                        !.pc = "done",
                        !.asked = witness.config # "none",
                        !.path = IF witness.config # "none"
                                    /\ witness.gateway = "up"
                                 THEN "gateway" ELSE "fallback",
                        !.result = witnessCheckNullifier(witness.call.arg, found)]]
    /\ UNCHANGED <<now, gossipVars, tokens, transfers, waitTime, validations,
                   confIn, freebird, receives,
                   extVars>>

\* Whether getAttestation's data.attestation.signatures.map(...) can be
\* called: signatures is an object in both forms of the envelope,
\* {signatures: [...]} or {signature, signers}, and has no map.
signaturesHaveMap(form) == form \notin {"multi", "aggregated"}

\* getAttestation after init, lines 652-681: null without a config, on 404, on
\* a failed or non-ok fetch, and when the call of map throws into the catch;
\* else the stored attestation, without its raw form.
getAttestationResult(hash, form) ==
    IF witness.config = "none" \/ witness.gateway # "up" THEN NoAttestation
    ELSE IF hash \notin witness.log THEN NoAttestation
    ELSE IF ~signaturesHaveMap(form) THEN NoAttestation
    ELSE [RealAttestation(SignedAttestation(form, hash, now), hash)
            EXCEPT !.raw = NoRaw]

\* getAttestation returns; form is the envelope that the gateway has stored.
GetAttestationDone(form) ==
    /\ witness.call.pc = "request"
    /\ witness.call.op = "getAttestation"
    /\ form \in {"multi", "aggregated"}
    /\ LET att == getAttestationResult(witness.call.arg, form)
       IN  witness' =
             [witness EXCEPT
                !.call = [@ EXCEPT !.pc = "done", !.att = att,
                                   !.asked = witness.config # "none",
                                   !.path = IF witness.config # "none"
                                               /\ witness.gateway = "up"
                                            THEN "gateway" ELSE "fallback",
                                   !.result = IF att = NoAttestation
                                              THEN Null ELSE "attestation"]]
    /\ UNCHANGED <<now, gossipVars, tokens, transfers, waitTime, validations,
                   confIn, freebird, receives,
                   extVars>>

\* getConfig after init, lines 688-703: the loaded config, else the built-in
\* one; no request is made.
GetConfigDone ==
    /\ witness.call.pc = "request"
    /\ witness.call.op = "getConfig"
    /\ witness' =
         [witness EXCEPT
            !.call = [@ EXCEPT !.pc = "done",
                               !.path = IF witness.config # "none"
                                        THEN "cached" ELSE "fallback",
                               !.result = IF witness.config # "none"
                                          THEN witness.config
                                          ELSE "built-in"]]
    /\ UNCHANGED <<now, gossipVars, tokens, transfers, waitTime, validations,
                   confIn, freebird, receives,
                   extVars>>

-----------------------------------------------------------------------------
(* FreebirdAdapter (integrations/freebird.ts) *)

NumIssuers == 2

Issuers == 1..NumIssuers

\* The blinded elements a caller may present.
Blinded == {<<7>>, <<8>>}

\* UTF-8 of 'ISSUED'.
IssuedTag == <<73, 83, 83, 85, 69, 68>>

\* The simulated token of the fallback.
FallbackToken(blinded) ==
    [kind |-> "fallback", from |-> {},
     value |-> Hash(<<Bytes(blinded), Str(IssuedTag)>>)]

\* What issueToken gives back after init.  state is whether a blind state was
\* stored for the blinded value, valid the issuers whose response arrived and
\* passed the DLEQ check.  With no valid response the throw is caught inside
\* issueToken, which then falls through to the simulated token.
issueTokenResult(blinded, metadata, state, valid) ==
    IF metadata # {} /\ state
    THEN IF valid = {} THEN FallbackToken(blinded)
         ELSE IF NumIssuers = 1 /\ Cardinality(valid) = 1
         THEN [kind |-> "token", from |-> valid, value |-> blinded]
         ELSE [kind |-> "aggregated", from |-> valid, value |-> blinded]
    ELSE FallbackToken(blinded)

NoToken == [kind |-> "none", from |-> {}, value |-> <<>>]

\* The callers whose calls on the one adapter may overlap.
Callers == {1, 2}

\* Tokens a caller may hand to verifyToken: a simulated one, an issued one and
\* a string of the wrong length.
VerifyTokens ==
    {FallbackToken(<<7>>),
     [kind |-> "aggregated", from |-> Issuers, value |-> <<7>>],
     [kind |-> "junk", from |-> {}, value |-> <<1, 2, 3>>]}

\* token.length: 32 for a hash, 130 for [A | B | proof].
TokenLength(token) ==
    IF token.kind = "fallback" THEN 32
    ELSE IF token.kind \in {"token", "aggregated"} THEN 130
    ELSE Len(token.value)

\* verifyToken's fallback, line 405.
lengthCheck(token) == TokenLength(token) = 32 \/ TokenLength(token) = 130

FreebirdCall(op, blinded, token) ==
    [op |-> op, pc |-> "init", blinded |-> blinded, token |-> token,
     state |-> FALSE, valid |-> {}, reached |-> {}, waiting |-> {},
     result |-> NoToken, verified |-> Null]

\* The adapter (verifierUrl: whether the configured URL is a non-empty string;
\* metadata: the issuers whose metadata it holds, in the order the Map
\* received them; blindStates) and the calls in flight, one per caller.
IdleFreebird ==
    [verifierUrl |-> TRUE, metadata |-> <<>>, blindStates |-> {},
     calls |-> [k \in Callers |->
                  [FreebirdCall("none", <<>>, NoToken) EXCEPT !.pc = "idle"]]]

\* The keys of this.metadata.
Held(metadata) == {metadata[i] : i \in DOMAIN metadata}

\* this.metadata.set(url, data): a new key goes to the end, a known one keeps
\* its place.
metadataSet(metadata, i) ==
    IF i \in Held(metadata) THEN metadata ELSE Append(metadata, i)

\* blind(publicKey), issueToken(blindedValue) or verifyToken(token) is
\* called: each starts with await this.init().
FreebirdStart(k, op, blinded, token) ==
    /\ freebird.calls[k].pc \in {"idle", "done"}
    /\ freebird' = [freebird EXCEPT !.calls[k] = FreebirdCall(op, blinded, token)]
    /\ UNCHANGED <<now, gossipVars, tokens, transfers, waitTime, validations,
                   confIn, witness, receives,
                   extVars>>

\* init, lines 87-92: it returns at once when some metadata is held, else it
\* asks every issuer for its metadata.
FreebirdInit(k) ==
    /\ freebird.calls[k].pc = "init"
    /\ freebird' =
         [freebird EXCEPT
            !.calls[k] =
               IF freebird.metadata # <<>>
               THEN [@ EXCEPT !.pc = "ready"]
               ELSE [@ EXCEPT !.pc = "fetching", !.waiting = Issuers]]
    /\ UNCHANGED <<now, gossipVars, tokens, transfers, waitTime, validations,
                   confIn, witness, receives,
                   extVars>>

\* init, lines 92-102: issuer i's answer to /.well-known/issuer arrives (ok),
\* or the request fails; an answer is stored as soon as it is there.
MetadataResponse(k, i, ok) ==
    /\ freebird.calls[k].pc = "fetching"
    /\ i \in freebird.calls[k].waiting
    /\ freebird' =
         [freebird EXCEPT
            !.metadata = IF ok THEN metadataSet(@, i) ELSE @,
            !.calls[k].waiting = @ \ {i}]
    /\ UNCHANGED <<now, gossipVars, tokens, transfers, waitTime, validations,
                   confIn, witness, receives,
                   extVars>>

\* init, line 105: every request is settled and init returns.
FreebirdInitDone(k) ==
    /\ freebird.calls[k].pc = "fetching"
    /\ freebird.calls[k].waiting = {}
    /\ freebird' = [freebird EXCEPT !.calls[k].pc = "ready"]
    /\ UNCHANGED <<now, gossipVars, tokens, transfers, waitTime, validations,
                   confIn, witness, receives,
                   extVars>>

\* A blinded value is random: it is none of those in the table or in a
\* caller's hands.
FreshBlinded(k, b) ==
    /\ ToHex(b) \notin freebird.blindStates
    /\ \A j \in Callers \ {k} : freebird.calls[j].blinded # b

\* blind after init: the VOPRF blinding stores its state, the simulated one
\* does not.
BlindDone(k, b) ==
    /\ freebird.calls[k].pc = "ready"
    /\ freebird.calls[k].op = "blind"
    /\ FreshBlinded(k, b)
    /\ freebird' =
         [freebird EXCEPT
            !.blindStates = IF freebird.metadata # <<>>
                            THEN @ \cup {ToHex(b)} ELSE @,
            !.calls[k] = [@ EXCEPT !.pc = "done", !.blinded = b,
                                   !.state = freebird.metadata # <<>>]]
    /\ UNCHANGED <<now, gossipVars, tokens, transfers, waitTime, validations,
                   confIn, witness, receives,
                   extVars>>

\* A clean-up that the fallback path forgets.
blindStatesAfterIssue_kept(states, blinded, result) ==
    IF result.kind = "fallback" THEN states ELSE states \ {ToHex(blinded)}

\* blindStates.delete(blindedHex): before the token is returned, in the catch
\* block, and before the simulated token is returned.
blindStatesAfterIssue(states, blinded, result) == states \ {ToHex(blinded)}

\* issueToken after init, lines 158-179: the blind state and the metadata are
\* read, and the request goes to every issuer whose metadata is held; without
\* a state or any metadata the simulated token is returned at once.
IssueRequest(k) ==
    /\ freebird.calls[k].pc = "ready"
    /\ freebird.calls[k].op = "issueToken"
    /\ LET blinded == freebird.calls[k].blinded
           state   == ToHex(blinded) \in freebird.blindStates
           held    == Held(freebird.metadata)
       IN  IF held # {} /\ state
           THEN freebird' =
                  [freebird EXCEPT
                     !.calls[k] = [@ EXCEPT !.pc = "issuing", !.state = state,
                                            !.reached = held,
                                            !.waiting = held]]
           ELSE freebird' =
                  [freebird EXCEPT
                     !.blindStates =
                        blindStatesAfterIssue(@, blinded,
                           issueTokenResult(blinded, held, state, {})),
                     !.calls[k] = [@ EXCEPT
                                     !.pc = "done", !.state = state,
                                     !.reached = held,
                                     !.result = issueTokenResult(blinded, held,
                                                                 state, {})]]
    /\ UNCHANGED <<now, gossipVars, tokens, transfers, waitTime, validations,
                   confIn, witness, receives,
                   extVars>>

\* issueToken, lines 181-225: issuer i's answer arrives and passes the DLEQ
\* check (ok), or the request fails, or the answer does not pass.
IssueResponse(k, i, ok) ==
    /\ freebird.calls[k].pc = "issuing"
    /\ i \in freebird.calls[k].waiting
    /\ freebird' =
         [freebird EXCEPT
            !.calls[k] = [@ EXCEPT
                            !.waiting = @ \ {i},
                            !.valid = IF ok THEN @ \cup {i} ELSE @]]
    /\ UNCHANGED <<now, gossipVars, tokens, transfers, waitTime, validations,
                   confIn, witness, receives,
                   extVars>>

\* issueToken, lines 228-293: every request is settled; the blind state is
\* deleted on every path.
IssueDone(k) ==
    /\ freebird.calls[k].pc = "issuing"
    /\ freebird.calls[k].waiting = {}
    /\ LET c      == freebird.calls[k]
           result == issueTokenResult(c.blinded, c.reached, c.state, c.valid)
       IN  freebird' =
             [freebird EXCEPT
                !.blindStates = blindStatesAfterIssue(@, c.blinded, result),
                !.calls[k] = [@ EXCEPT !.pc = "done", !.result = result]]
    /\ UNCHANGED <<now, gossipVars, tokens, transfers, waitTime, validations,
                   confIn, witness, receives,
                   extVars>>

\* verifyToken after init, lines 379-393: with metadata and a verifier URL the
\* token goes to the verifier under the first stored issuer's id; without,
\* the length decides.
VerifyTokenRequest(k) ==
    /\ freebird.calls[k].pc = "ready"
    /\ freebird.calls[k].op = "verifyToken"
    /\ freebird' =
         [freebird EXCEPT
            !.calls[k] =
               IF freebird.metadata # <<>> /\ freebird.verifierUrl
               THEN [@ EXCEPT !.pc = "verifying",
                              !.reached = {freebird.metadata[1]}]
               ELSE [@ EXCEPT !.pc = "done",
                              !.verified = lengthCheck(freebird.calls[k].token)]]
    /\ UNCHANGED <<now, gossipVars, tokens, transfers, waitTime, validations,
                   confIn, witness, receives,
                   extVars>>

VerifierAnswers == {"ok", "rejected", "failed"}

\* verifyToken, lines 395-405: the verifier's data.ok, or the length check
\* when the response is not ok or the request failed.
VerifyTokenDone(k, answer) ==
    /\ freebird.calls[k].pc = "verifying"
    /\ freebird' =
         [freebird EXCEPT
            !.calls[k] = [@ EXCEPT
                            !.pc = "done",
                            !.verified = IF answer = "failed"
                                         THEN lengthCheck(freebird.calls[k].token)
                                         ELSE answer = "ok"]]
    /\ UNCHANGED <<now, gossipVars, tokens, transfers, waitTime, validations,
                   confIn, witness, receives,
                   extVars>>

-----------------------------------------------------------------------------
(* ScarbuckToken (token.ts) *)

\* Two in-memory instances, which Init may build from the same id and secret.
Instances == {1, 2}

\* UTF-8 of 'OWNERSHIP_PROOF'.
OwnershipTag == <<79, 87, 78, 69, 82, 83, 72, 73, 80, 95, 80, 82, 79, 79, 70>>

\* FreebirdAdapter.createOwnershipProof.
createOwnershipProof(secret) == Hash(<<Bytes(secret), Str(OwnershipTag)>>)

IdleCall ==
    [pc |-> "idle", inst |-> 0, nullifier |-> NoBytes,
     commitment |-> NoBytes, ownershipProof |-> NoBytes, proof |-> NoProof,
     error |-> Null]

\* The nullifier of the HEAD side of the conflict, which hashes the time in.
transferNullifier_timestamped(token, timestamp) ==
    generateNullifier(token.secret, token.id, timestamp)

\* transfer, step A: the nullifier of a spend (incoming side of the conflict).
transferNullifier(token, timestamp) ==
    Hash(<<Bytes(token.secret), Str(token.id)>>)

\* A call that threw: its frame is gone, the error is what is left.
Threw(call, err) == [IdleCall EXCEPT !.pc = "threw", !.inst = call.inst,
                                     !.error = err]

\* transfer, step D: the package before its proof.
transferPkg(call) ==
    [tokenId    |-> tokens[call.inst].id,
     amount     |-> tokens[call.inst].amount,
     commitment |-> call.commitment,
     nullifier  |-> call.nullifier]

\* A transfer without the guard.
transferGuard_absent(token) == FALSE

\* transfer, line 72: the guard on the spent flag.
transferGuard(token) == token.spent

\* transfer() is called on instance i: the spent guard, the nullifier, and the
\* call of freebird.blind.
TransferStart(i) ==
    /\ BagCardinality(transfers) < MaxTransfers
    /\ transfers' =
         BagAdd(transfers,
            IF transferGuard(tokens[i])
            THEN Threw([IdleCall EXCEPT !.inst = i], "Token already spent")
            ELSE [IdleCall EXCEPT !.pc = "blind", !.inst = i,
                                  !.nullifier = transferNullifier(tokens[i], now)])
    /\ UNCHANGED <<now, gossipVars, tokens, waitTime, validations, confIn, witness, freebird,
                   receives,
                   extVars>>

\* freebird.blind returns a commitment, or throws; then createOwnershipProof
\* is called.
TransferBlinded(c, commitment, ok) ==
    /\ BagIn(c, transfers)
    /\ c.pc = "blind"
    /\ transfers' =
         BagMove(transfers, c,
            IF ok THEN [c EXCEPT !.pc = "ownership", !.commitment = commitment]
            ELSE Threw(c, "Freebird failed"))
    /\ UNCHANGED <<now, gossipVars, tokens, waitTime, validations, confIn, witness, freebird,
                   receives,
                   extVars>>

\* createOwnershipProof returns, or throws; then witness.timestamp is called
\* on the package hash.
TransferOwnership(c, ok) ==
    /\ BagIn(c, transfers)
    /\ c.pc = "ownership"
    /\ transfers' =
         BagMove(transfers, c,
            IF ok
            THEN [c EXCEPT !.pc = "timestamp",
                           !.ownershipProof =
                              createOwnershipProof(tokens[c.inst].secret)]
            ELSE Threw(c, "Freebird failed"))
    /\ UNCHANGED <<now, gossipVars, tokens, waitTime, validations, confIn, witness, freebird,
                   receives,
                   extVars>>

\* witness.timestamp returns the attestation, or throws; then gossip.publish
\* runs to its first await.  A gateway that attested the hash has it in its log.
TransferTimestamped(c, ok, failing) ==
    /\ BagIn(c, transfers)
    /\ c.pc = "timestamp"
    /\ IF ~ok
       THEN /\ transfers' =
                 BagMove(transfers, c, Threw(c, "Witness failed"))
            /\ UNCHANGED <<seenNullifiers, sent>>
       ELSE LET proof == Attestation(hashTransferPackage(transferPkg(c)), now,
                                     "genuine")
                n     == c.nullifier
            IN  IF publishRejects(n)
                THEN /\ transfers' =
                          BagMove(transfers, c, Threw(c, "DoubleSpend"))
                     /\ UNCHANGED <<seenNullifiers, sent>>
                ELSE /\ CanSend
                     /\ seenNullifiers' = publishInsert(n, proof)
                     /\ sent' = broadcast(NullifierMsg(n, proof, now), failing)
                     /\ transfers' =
                          BagMove(transfers, c,
                             [c EXCEPT
                                !.pc = "publish",
                                !.proof = proof,
                                !.error = IF broadcastThrows(failing, FALSE)
                                          THEN "SendFailed" ELSE Null])
    /\ witness' = IF ok THEN federationLog(hashTransferPackage(transferPkg(c)))
                  ELSE witness
    /\ UNCHANGED <<now, peerConnections, connected, receiveHandler, receiving,
                   publishResult, pruned, tokens, waitTime, validations, confIn,
                   freebird, receives,
                   extVars>>

\* gossip.publish settles: on success the token is marked spent and the
\* package is returned; a failed send makes publish, and so transfer, throw.
TransferPublished(c) ==
    /\ BagIn(c, transfers)
    /\ c.pc = "publish"
    /\ IF c.error = Null
       THEN /\ tokens' = [tokens EXCEPT ![c.inst].spent = TRUE]
            /\ transfers' = BagMove(transfers, c, [c EXCEPT !.pc = "returned"])
       ELSE /\ transfers' = BagMove(transfers, c, Threw(c, c.error))
            /\ UNCHANGED tokens
    /\ UNCHANGED <<now, gossipVars, waitTime, validations, confIn, witness, freebird,
                   receives,
                   extVars>>

\* The constructor: a token is created unspent.
Token(t, a, s) == [id |-> t, amount |-> a, secret |-> s, spent |-> FALSE]

MaxReceives == 2

\* A receive() invocation: ownershipValid is what freebird.verifyToken
\* answered, created whether the constructor ran.
ReceiveCall(pkg, secret) ==
    [pkg |-> pkg, secret |-> secret, pc |-> "verify", ownershipValid |-> "unset",
     created |-> FALSE, token |-> Token(<<>>, 0, <<>>), error |-> Null]

\* A receive that takes every package as one without an ownership proof.
receiveChecksOwnership_never(pkg) == FALSE

\* receive: if (pkg.ownershipProof).
receiveChecksOwnership(pkg) == pkg.ownershipProof # NoBytes

\* receive: the new token of the recipient.
receiveToken(r) ==
    [r EXCEPT !.pc = "returned", !.created = TRUE,
              !.token = Token(r.pkg.tokenId, r.pkg.amount, r.secret)]

\* ScarbuckToken.receive(pkg, recipientSecret, ...) is called: witness.verify
\* is awaited.
ReceiveStart(pkg, secret) ==
    /\ BagCardinality(receives) < MaxReceives
    /\ receives' = BagAdd(receives, ReceiveCall(pkg, secret))
    /\ UNCHANGED <<now, gossipVars, tokens, transfers, waitTime, validations,
                   confIn, witness, freebird,
                   extVars>>

\* witness.verify returns: the throw, the call of freebird.verifyToken, or the
\* new token.
ReceiveVerified(r) ==
    /\ BagIn(r, receives)
    /\ r.pc = "verify"
    /\ receives' =
         BagMove(receives, r,
            IF ~WitnessVerify(r.pkg.proof)
            THEN [r EXCEPT !.pc = "threw", !.error = "Invalid transfer proof"]
            ELSE IF receiveChecksOwnership(r.pkg)
            THEN [r EXCEPT !.pc = "ownership"]
            ELSE receiveToken(r))
    /\ UNCHANGED <<now, gossipVars, tokens, transfers, waitTime, validations,
                   confIn, witness, freebird,
                   extVars>>

\* freebird.verifyToken returns.
ReceiveOwnershipVerified(r, ownershipValid) ==
    /\ BagIn(r, receives)
    /\ r.pc = "ownership"
    /\ receives' =
         BagMove(receives, r,
            IF ~ownershipValid
            THEN [r EXCEPT !.pc = "threw", !.ownershipValid = "false",
                           !.error = "Invalid ownership proof"]
            ELSE receiveToken([r EXCEPT !.ownershipValid = "true"]))
    /\ UNCHANGED <<now, gossipVars, tokens, transfers, waitTime, validations,
                   confIn, witness, freebird,
                   extVars>>

-----------------------------------------------------------------------------
(* ScarbuckToken.merge and receiveMerge.  The specification describes them:
   all sources unspent, one nullifier per source, one joint attestation, the
   sources marked spent together.  The nullifiers go out through
   gossip.publish (gossip.ts, lines 51-76), which takes one nullifier, stores
   it and awaits its broadcast; merge awaits each call as transfer() does
   (token.ts, lines 112-115) and marks the sources spent when the last has
   returned. *)

MaxMerges == 2

RECURSIVE SumAmounts(_)
SumAmounts(S) ==
    IF S = {} THEN 0
    ELSE LET i == CHOOSE j \in S : TRUE
         IN  tokens[i].amount + SumAmounts(S \ {i})

\* The fresh id of the merged token.
MergedId == <<98>>

NoMerged == [id |-> <<>>, amount |-> 0, secret |-> <<>>, spent |-> FALSE]

\* A merge invocation; published are the sources whose nullifier this call
\* has handed to gossip.publish and publish has stored.
MergeCall(S) ==
    [sources |-> S, pc |-> "timestamp",
     nullifiers |-> [i \in S |-> transferNullifier(tokens[i], now)],
     proof |-> NoProof, published |-> {},
     amount |-> SumAmounts(S), error |-> Null, merged |-> NoMerged]

MergeThrew(c, err) == [c EXCEPT !.pc = "threw", !.error = err]

\* merge calls gossip.publish for its next nullifier, up to publish's await of
\* the broadcast: the alarm throws, or the record is stored and the sends are
\* issued.  The nullifiers are published in the order of the sources;
\* failing are the peers whose send will reject.
mergePublish(c, proof, failing) ==
    LET rest == c.sources \ c.published
        i == CHOOSE j \in rest : \A k \in rest : j <= k
        n == c.nullifiers[i]
    IN  IF publishRejects(n)
        THEN /\ merges' = BagMove(merges, c,
                             MergeThrew([c EXCEPT !.proof = proof],
                                        "DoubleSpend"))
             /\ UNCHANGED <<seenNullifiers, sent>>
        ELSE /\ CanSend
             /\ seenNullifiers' = publishInsert(n, proof)
             /\ sent' = broadcast(NullifierMsg(n, proof, now), failing)
             /\ merges' =
                  BagMove(merges, c,
                     [c EXCEPT
                        !.pc = "publish",
                        !.proof = proof,
                        !.published = @ \cup {i},
                        !.error = IF broadcastThrows(failing, FALSE)
                                  THEN "SendFailed" ELSE Null])

\* merge(sources, recipient) is called: every source must be unspent; then the
\* joint attestation is awaited.
MergeStart(S) ==
    /\ S # {}
    /\ BagCardinality(merges) < MaxMerges
    /\ merges' =
         BagAdd(merges,
            IF \E i \in S : tokens[i].spent
            THEN MergeThrew(MergeCall(S), "Token already spent")
            ELSE MergeCall(S))
    /\ UNCHANGED <<now, gossipVars, tokens, transfers, waitTime, validations,
                   confIn, witness, freebird, receives, htlcs, transport,
                   network, cliConfig,
                   minConfidence>>

\* witness.timestamp throws, or the joint attestation arrives and merge calls
\* gossip.publish for its first nullifier.
MergeTimestamped(c, ok, failing) ==
    /\ BagIn(c, merges)
    /\ c.pc = "timestamp"
    /\ IF ok
       THEN mergePublish(c, Attestation(MergedId, now, "genuine"), failing)
       ELSE /\ merges' = BagMove(merges, c, MergeThrew(c, "Witness failed"))
            /\ UNCHANGED <<seenNullifiers, sent>>
    /\ UNCHANGED <<now, peerConnections, connected, receiveHandler,
                   receiving, publishResult, pruned, tokens, transfers,
                   waitTime, validations, confIn, witness, freebird, receives,
                   htlcs, transport, network, cliConfig,
                   minConfidence>>

\* A publish of merge settles while other nullifiers are still to be
\* published, or with a failed send: a failed send makes publish, and so
\* merge, throw, with the record left in the seen set; otherwise merge calls
\* gossip.publish for its next nullifier.
MergePublished(c, failing) ==
    /\ BagIn(c, merges)
    /\ c.pc = "publish"
    /\ c.error # Null \/ c.published # c.sources
    /\ IF c.error # Null
       THEN /\ merges' = BagMove(merges, c, MergeThrew(c, c.error))
            /\ UNCHANGED <<seenNullifiers, sent>>
       ELSE mergePublish(c, c.proof, failing)
    /\ UNCHANGED <<now, peerConnections, connected, receiveHandler,
                   receiving, publishResult, pruned, tokens, transfers,
                   waitTime, validations, confIn, witness, freebird, receives,
                   htlcs, transport, network, cliConfig,
                   minConfidence>>

\* The last publish of merge returns: every source is marked spent and the
\* package is returned.
MergeCommit(c) ==
    /\ BagIn(c, merges)
    /\ c.pc = "publish"
    /\ c.error = Null
    /\ c.published = c.sources
    /\ tokens' = [i \in Instances |->
                    IF i \in c.sources
                    THEN [tokens[i] EXCEPT !.spent = TRUE]
                    ELSE tokens[i]]
    /\ merges' = BagMove(merges, c, [c EXCEPT !.pc = "returned"])
    /\ UNCHANGED <<now, gossipVars, waitTime, transfers,
                   validations, confIn, witness, freebird, receives, htlcs,
                   transport, network, cliConfig,
                   minConfidence>>

\* receiveMerge: the recipient's token, of the fresh id and the summed amount.
MergeReceived(c, secret) ==
    /\ BagIn(c, merges)
    /\ c.pc = "returned"
    /\ merges' = BagMove(merges, c,
                    [c EXCEPT !.pc = "received",
                              !.merged = Token(MergedId, c.amount, secret)])
    /\ UNCHANGED <<now, gossipVars, tokens, transfers, waitTime, validations,
                   confIn, witness, freebird, receives, htlcs, transport,
                   network, cliConfig,
                   minConfidence>>

-----------------------------------------------------------------------------
(* Time-locked HTLC packages, as the specification describes them:
   transferHTLC with a time condition must carry a refund key; receiveHTLC
   succeeds only while now < timelock; refundHTLC only when now >= timelock. *)

MaxHTLCs == 1

Timelocks == 0..(MaxTime + 1)

RefundKeys == {NoBytes, <<5>>, <<6>>}

HTLCPackage(timelock, refundKey) ==
    [timelock |-> timelock, refundKey |-> refundKey, pc |-> "locked",
     attempts |-> {}]

\* A claim that is still accepted at the instant of expiry.
receiveHTLCAllowed_inclusive(pkg, t) == t <= pkg.timelock

\* receiveHTLC succeeds only while now < timelock_ms.
receiveHTLCAllowed(pkg, t) == t < pkg.timelock

\* refundHTLC succeeds only when now >= timelock_ms.
refundHTLCAllowed(pkg, t) == t >= pkg.timelock

\* transferHTLC with a time condition: without a refund key no package is
\* created.
TransferHTLC(timelock, refundKey) ==
    /\ BagCardinality(htlcs) < MaxHTLCs
    /\ htlcs' =
         BagAdd(htlcs,
            IF refundKey = NoBytes
            THEN [HTLCPackage(timelock, refundKey) EXCEPT !.pc = "threw"]
            ELSE HTLCPackage(timelock, refundKey))
    /\ UNCHANGED <<now, gossipVars, tokens, transfers, waitTime, validations,
                   confIn, witness, freebird, receives, merges, transport,
                   network, cliConfig,
                   minConfidence>>

\* receiveHTLC(pkg, recipientSecret): the recipient claims.
ReceiveHTLC(h) ==
    /\ BagIn(h, htlcs)
    /\ h.pc = "locked"
    /\ htlcs' =
         BagMove(htlcs, h,
            [h EXCEPT !.attempts =
                @ \cup {[op |-> "receive", at |-> now,
                         ok |-> receiveHTLCAllowed(h, now)]}])
    /\ UNCHANGED <<now, gossipVars, tokens, transfers, waitTime, validations,
                   confIn, witness, freebird, receives, merges, transport,
                   network, cliConfig,
                   minConfidence>>

\* refundHTLC(pkg, refundSecret): the sender takes the token back.
RefundHTLC(h) ==
    /\ BagIn(h, htlcs)
    /\ h.pc = "locked"
    /\ htlcs' =
         BagMove(htlcs, h,
            [h EXCEPT !.attempts =
                @ \cup {[op |-> "refund", at |-> now,
                         ok |-> refundHTLCAllowed(h, now)]}])
    /\ UNCHANGED <<now, gossipVars, tokens, transfers, waitTime, validations,
                   confIn, witness, freebird, receives, merges, transport,
                   network, cliConfig,
                   minConfidence>>

-----------------------------------------------------------------------------
(* HyperTokenAdapter and HyperTokenPeerWrapper (hypertoken.ts, incoming side)
   over the vendored PeerConnection *)

\* The peers that the relay announces.
TPeers == {1}

\* The managers that connect() builds: a first one and one more.
Managers == {1, 2}

\* The PeerConnection of a HybridPeerManager.  socket: "connecting", "open"
\* (readyState 1), "closing" after close(), "closed" once the close event has
\* fired; welcomed: the relay has sent its welcome on this socket.
NewConn ==
    [socket |-> "connecting", connected |-> FALSE, welcomed |-> FALSE,
     peers |-> {}]

\* No send yet.
NoSend == [afterDisconnect |-> FALSE, early |-> FALSE, result |-> "none"]

\* conns: the PeerConnections of the managers that connect() has built, the
\* last being that of this.htManager.  connect: readyPromise as the connect()
\* calls see it, "none" before the first call, "waiting" until it is resolved
\* or rejected.  A wrapper is [peer, conn]; conn 0 is the object that
\* createPeer returns without a manager.  held: the wrappers that callers hold;
\* early: those created before disconnect(); lastSend: the latest send and
\* what became of it.  payload: whether the manager hands its handlers the
\* event as {payload: ...}, which the handlers of the adapter read, or the
\* bare argument of emit; the Emitter is not among the sources, so either is
\* possible.
IdleTransport ==
    [conns |-> <<>>, isReady |-> FALSE, connect |-> "none",
     peerWrappers |-> {}, held |-> {}, early |-> {},
     disconnected |-> FALSE, lastSend |-> NoSend, payload |-> TRUE]

Wrapper(p, g) == [peer |-> p, conn |-> g]

\* HyperTokenPeerWrapper.isConnected, on the PeerConnection c of its manager.
wrapperIsConnected(c, p) == c.connected /\ p \in c.peers

\* HyperTokenPeerWrapper.send over PeerConnection.sendToPeer and _send: what
\* becomes of one send.
wrapperSend(c, p) ==
    IF ~wrapperIsConnected(c, p) THEN "not connected"
    ELSE IF c.socket # "open" THEN "dropped"
    ELSE "sent"

\* send on what createPeer returned: the wrapper's, or, for the object made
\* without a manager, a return without sending.
peerSend(t, w) ==
    IF w.conn = 0 THEN "dropped" ELSE wrapperSend(t.conns[w.conn], w.peer)

\* HyperTokenAdapter.connect up to its await: a new manager, the handlers and
\* the socket's creation; readyPromise is the one made in the constructor.
TransportConnect ==
    /\ Len(transport.conns) < Cardinality(Managers)
    /\ transport' = [transport EXCEPT
                       !.conns = Append(@, NewConn),
                       !.connect = IF @ = "none" THEN "waiting" ELSE @]
    /\ UNCHANGED <<now, gossipVars, tokens, transfers, waitTime, validations,
                   confIn, witness, freebird, receives, merges, htlcs, network, cliConfig,
                   minConfidence>>

\* The socket's open event: PeerConnection._onOpen.
TransportOpen(g) ==
    /\ g \in DOMAIN transport.conns
    /\ transport.conns[g].socket = "connecting"
    /\ transport' = [transport EXCEPT !.conns[g].socket = "open",
                                      !.conns[g].connected = TRUE]
    /\ UNCHANGED <<now, gossipVars, tokens, transfers, waitTime, validations,
                   confIn, witness, freebird, receives, merges, htlcs, network, cliConfig,
                   minConfidence>>

\* net:ready on a manager that connect() has built: the handler sets isReady,
\* reads evt.payload.peerId and resolves readyPromise, on which connect()
\* waits.  The handler tests nothing.  When the event carries no payload the
\* read throws after isReady is set, and readyPromise stays as it is.
TransportWelcome(g) ==
    /\ g \in DOMAIN transport.conns
    /\ transport' = [transport EXCEPT
                       !.conns[g].welcomed = TRUE,
                       !.isReady = TRUE,
                       !.connect = IF @ = "waiting" /\ transport.payload
                                   THEN "resolved" ELSE @]
    /\ UNCHANGED <<now, gossipVars, tokens, transfers, waitTime, validations,
                   confIn, witness, freebird, receives, merges, htlcs, network, cliConfig,
                   minConfidence>>

\* The 10 s timer of connect(), or a net:error event, while connect() waits:
\* readyPromise is rejected and connect() throws.
TransportConnectFailed ==
    /\ transport.connect = "waiting"
    /\ ~transport.isReady
    /\ transport' = [transport EXCEPT !.connect = "rejected"]
    /\ UNCHANGED <<now, gossipVars, tokens, transfers, waitTime, validations,
                   confIn, witness, freebird, receives, merges, htlcs, network, cliConfig,
                   minConfidence>>

\* The relay announces a peer.
TransportPeerJoined(g, p) ==
    /\ g \in DOMAIN transport.conns
    /\ transport.conns[g].socket = "open"
    /\ p \notin transport.conns[g].peers
    /\ transport' = [transport EXCEPT !.conns[g].peers = @ \cup {p}]
    /\ UNCHANGED <<now, gossipVars, tokens, transfers, waitTime, validations,
                   confIn, witness, freebird, receives, merges, htlcs, network, cliConfig,
                   minConfidence>>

\* peer:left on a manager that connect() has built: PeerConnection deletes
\* the peer, and the net:peer:disconnected handler reads evt.payload.peerId
\* and deletes the wrapper stored under that id, whichever manager it was
\* made for.  When the event carries no payload the read throws and the
\* wrapper stays.
TransportPeerLeft(g, p) ==
    /\ g \in DOMAIN transport.conns
    /\ transport' = [transport EXCEPT
                       !.conns[g].peers = @ \ {p},
                       !.peerWrappers = IF transport.payload
                                        THEN {w \in @ : w.peer # p} ELSE @]
    /\ UNCHANGED <<now, gossipVars, tokens, transfers, waitTime, validations,
                   confIn, witness, freebird, receives, merges, htlcs, network, cliConfig,
                   minConfidence>>

\* HyperTokenAdapter.createPeer.  Without a manager the object returned is not
\* stored; with one, which disconnect() leaves in place, the wrapper is stored
\* under the peer's id.  The caller holds what is returned.
TransportCreatePeer(p) ==
    /\ LET w == Wrapper(p, Len(transport.conns))
       IN  transport' =
             [transport EXCEPT
                !.peerWrappers = IF w.conn = 0 THEN @
                                 ELSE {v \in @ : v.peer # p} \cup {w},
                !.held = @ \cup {w},
                !.early = IF transport.disconnected THEN @ ELSE @ \cup {w}]
    /\ UNCHANGED <<now, gossipVars, tokens, transfers, waitTime, validations,
                   confIn, witness, freebird, receives, merges, htlcs, network, cliConfig,
                   minConfidence>>

\* HyperTokenAdapter.disconnect: socket.close() on the manager's socket starts
\* the closing handshake.
TransportDisconnect ==
    /\ transport.conns # <<>>
    /\ transport' =
         [transport EXCEPT
            !.conns[Len(transport.conns)].socket =
               IF @ \in {"connecting", "open"} THEN "closing" ELSE @,
            !.peerWrappers = {},
            !.isReady = FALSE,
            !.disconnected = TRUE]
    /\ UNCHANGED <<now, gossipVars, tokens, transfers, waitTime, validations,
                   confIn, witness, freebird, receives, merges, htlcs, network, cliConfig,
                   minConfidence>>

\* PeerConnection._onClose: the close event fires.
TransportClosed(g) ==
    /\ g \in DOMAIN transport.conns
    /\ transport.conns[g].socket \in {"open", "closing"}
    /\ transport' = [transport EXCEPT !.conns[g].socket = "closed",
                                      !.conns[g].connected = FALSE,
                                      !.conns[g].peers = {}]
    /\ UNCHANGED <<now, gossipVars, tokens, transfers, waitTime, validations,
                   confIn, witness, freebird, receives, merges, htlcs, network, cliConfig,
                   minConfidence>>

\* A caller sends on a wrapper it holds.
TransportSend(w) ==
    /\ w \in transport.held
    /\ transport' =
         [transport EXCEPT
            !.lastSend = [afterDisconnect |-> transport.disconnected,
                          early |-> w \in transport.early,
                          result |-> peerSend(transport, w)]]
    /\ UNCHANGED <<now, gossipVars, tokens, transfers, waitTime, validations,
                   confIn, witness, freebird, receives, merges, htlcs, network, cliConfig,
                   minConfidence>>

-----------------------------------------------------------------------------
(* A network of gossip nodes: every node runs NullifierGossip.publish,
   onReceive and broadcast (gossip.ts, first class) and accepts the
   attestation; the nodes are connected in a line. *)

NumNodes == 3

Nodes == 1..NumNodes

\* The nullifiers that the nodes publish.
NetNullifiers == {1}

\* The peer connections of a node.
neighbours(i) == {j \in Nodes : j = i + 1 \/ i = j + 1}

\* seen[i][n] is the peerCount of the record of n at node i, 0 when absent.
IdleNetwork ==
    [seen |-> [i \in Nodes |-> [n \in NetNullifiers |-> 0]],
     inflight |-> {}, handling |-> {}]

NetMsg(from, to, n) == [from |-> from, to |-> to, n |-> n]

\* broadcast: one send to every peer connection of the node.
netBroadcast(i, n) == {NetMsg(i, j, n) : j \in neighbours(i)}

\* A node that keeps what it receives to itself.
netForward_none(m) == {}

\* onReceive, lines 147-151: a new nullifier is broadcast to the node's peers.
netForward(m) == netBroadcast(m.to, m.n)

\* publish on node i: refused when the nullifier is in the seen set.
NetPublish(i, n) ==
    /\ network.seen[i][n] = 0
    /\ network' = [network EXCEPT !.seen[i][n] = 1,
                                  !.inflight = @ \cup netBroadcast(i, n)]
    /\ UNCHANGED <<now, gossipVars, tokens, transfers, waitTime, validations,
                   confIn, witness, freebird, receives, merges, htlcs,
                   transport, cliConfig,
                   minConfidence>>

\* A sent message arrives: onReceive runs to its await of witness.verify.
NetReceive(m) ==
    /\ m \in network.inflight
    /\ m \notin network.handling
    /\ network' = [network EXCEPT !.inflight = @ \ {m},
                                  !.handling = @ \cup {m}]
    /\ UNCHANGED <<now, gossipVars, tokens, transfers, waitTime, validations,
                   confIn, witness, freebird, receives, merges, htlcs,
                   transport, cliConfig,
                   minConfidence>>

\* A node that takes every nullifier it receives for a new one.
netExisting_never(m) == FALSE

\* onReceive, lines 128-131: the record of the nullifier, if the node has one.
netExisting(m) == network.seen[m.to][m.n] > 0

\* witness.verify accepted the proof: a repeat raises peerCount, a new
\* nullifier is inserted and broadcast.
NetVerified(m) ==
    /\ m \in network.handling
    /\ network' =
         IF netExisting(m)
         THEN [network EXCEPT !.handling = @ \ {m},
                              !.seen[m.to][m.n] = @ + 1]
         ELSE [network EXCEPT !.handling = @ \ {m},
                              !.seen[m.to][m.n] = 1,
                              !.inflight = @ \cup netForward(m)]
    /\ UNCHANGED <<now, gossipVars, tokens, transfers, waitTime, validations,
                   confIn, witness, freebird, receives, merges, htlcs,
                   transport, cliConfig,
                   minConfidence>>

-----------------------------------------------------------------------------
(* ConfigManager (cli/config.ts).  Objects are held by reference: heap maps an
   object's identity to its contents, and a configuration's sections are
   identities. *)

\* The nested objects of DEFAULT_CONFIG, and those that loadConfig builds when
\* it merges a file.
DefaultWitnessObj == "DEFAULT_CONFIG.witness"

DefaultHypertokenObj == "DEFAULT_CONFIG.hypertoken"

LoadedWitnessObj == "loaded.witness"

LoadedHypertokenObj == "loaded.hypertoken"

\* The shipped defaults, lines 31-49, as values.
ShippedDefaults ==
    [version |-> "1.0",
     witness |-> [gatewayUrl |-> "http://localhost:8080",
                  networkId |-> "scarcity-testnet"],
     hypertoken |-> [relayUrl |-> "ws://localhost:3000"]]

\* DEFAULT_CONFIG itself: its sections are references.
DEFAULT_CONFIG ==
    [version |-> ShippedDefaults.version,
     witness |-> DefaultWitnessObj,
     hypertoken |-> DefaultHypertokenObj]

\* The key paths and the values that callers set.
ConfigPaths ==
    {<<"version">>, <<"witness", "gatewayUrl">>, <<"witness", "networkId">>,
     <<"hypertoken", "relayUrl">>}

ConfigValues == {"x", "y"}

\* JSON.stringify(this.config): the contents without the identities.
Stringify(top, heap) ==
    [version |-> top.version,
     witness |-> heap[top.witness],
     hypertoken |-> heap[top.hypertoken]]

\* The files an earlier run may have left.
ConfigFiles ==
    {[ShippedDefaults EXCEPT !.witness.gatewayUrl = v] : v \in ConfigValues}

NoFile == [version |-> "", witness |-> [gatewayUrl |-> "", networkId |-> ""],
           hypertoken |-> [relayUrl |-> ""]]

\* Before the ConfigManager is constructed; file is what is on disk.
IdleConfig ==
    [constructed |-> FALSE, last |-> "none",
     heap |-> (DefaultWitnessObj :> ShippedDefaults.witness)
              @@ (DefaultHypertokenObj :> ShippedDefaults.hypertoken)
              @@ (LoadedWitnessObj :> NoFile.witness)
              @@ (LoadedHypertokenObj :> NoFile.hypertoken),
     manager |-> DEFAULT_CONFIG, exists |-> FALSE, file |-> NoFile]

\* { ...DEFAULT_CONFIG }: a new top-level object with the same sections.
ShallowCopy(top) == top

\* ConfigManager.get for a key path of one or two keys.
configGet(c, keyPath) ==
    IF Len(keyPath) = 1 THEN c.manager.version
    ELSE IF keyPath[1] = "witness"
    THEN IF keyPath[2] = "gatewayUrl" THEN c.heap[c.manager.witness].gatewayUrl
         ELSE c.heap[c.manager.witness].networkId
    ELSE c.heap[c.manager.hypertoken].relayUrl

\* What get answers on the shipped defaults.
defaultGet(keyPath) ==
    IF Len(keyPath) = 1 THEN ShippedDefaults.version
    ELSE IF keyPath[1] = "witness"
    THEN IF keyPath[2] = "gatewayUrl" THEN ShippedDefaults.witness.gatewayUrl
         ELSE ShippedDefaults.witness.networkId
    ELSE ShippedDefaults.hypertoken.relayUrl

\* An earlier run left a config file.
ConfigFileWritten(f) ==
    /\ ~cliConfig.constructed
    /\ ~cliConfig.exists
    /\ cliConfig' = [cliConfig EXCEPT !.exists = TRUE, !.file = f]
    /\ UNCHANGED <<now, gossipVars, tokens, transfers, waitTime, validations,
                   confIn, witness, freebird, receives, merges, htlcs,
                   transport, network,
                   minConfidence>>

\* The constructor: loadConfig copies DEFAULT_CONFIG when there is no file and
\* merges the file's sections into new objects when there is one.
ConfigLoad ==
    /\ ~cliConfig.constructed
    /\ cliConfig' =
         IF ~cliConfig.exists
         THEN [cliConfig EXCEPT !.constructed = TRUE, !.last = "load",
                             !.manager = ShallowCopy(DEFAULT_CONFIG)]
         ELSE [cliConfig EXCEPT
                 !.constructed = TRUE, !.last = "load",
                 !.heap = [@ EXCEPT ![LoadedWitnessObj] = cliConfig.file.witness,
                                    ![LoadedHypertokenObj] =
                                       cliConfig.file.hypertoken],
                 !.manager = [version |-> cliConfig.file.version,
                              witness |-> LoadedWitnessObj,
                              hypertoken |-> LoadedHypertokenObj]]
    /\ UNCHANGED <<now, gossipVars, tokens, transfers, waitTime, validations,
                   confIn, witness, freebird, receives, merges, htlcs,
                   transport, network,
                   minConfidence>>

\* set(keyPath, value): walks from this.config to the parent object, assigns
\* in place, and saves.
ConfigSet(keyPath, value) ==
    /\ cliConfig.constructed
    /\ LET top  == cliConfig.manager
           top2 == IF Len(keyPath) = 1 THEN [top EXCEPT !.version = value]
                   ELSE top
           heap2 ==
              IF Len(keyPath) = 1 THEN cliConfig.heap
              ELSE IF keyPath[1] = "witness"
              THEN IF keyPath[2] = "gatewayUrl"
                   THEN [cliConfig.heap EXCEPT ![top.witness].gatewayUrl = value]
                   ELSE [cliConfig.heap EXCEPT ![top.witness].networkId = value]
              ELSE [cliConfig.heap EXCEPT ![top.hypertoken].relayUrl = value]
       IN  cliConfig' = [cliConfig EXCEPT !.last = "set", !.manager = top2,
                                    !.heap = heap2, !.exists = TRUE,
                                    !.file = Stringify(top2, heap2)]
    /\ UNCHANGED <<now, gossipVars, tokens, transfers, waitTime, validations,
                   confIn, witness, freebird, receives, merges, htlcs,
                   transport, network,
                   minConfidence>>

\* reset(): this.config = { ...DEFAULT_CONFIG }, then save.
ConfigReset ==
    /\ cliConfig.constructed
    /\ LET top2 == ShallowCopy(DEFAULT_CONFIG)
       IN  cliConfig' = [cliConfig EXCEPT !.last = "reset", !.manager = top2,
                                    !.exists = TRUE,
                                    !.file = Stringify(top2, cliConfig.heap)]
    /\ UNCHANGED <<now, gossipVars, tokens, transfers, waitTime, validations,
                   confIn, witness, freebird, receives, merges, htlcs,
                   transport, network,
                   minConfidence>>

-----------------------------------------------------------------------------
(* The state of the extensions after construction *)

InitExt ==
    /\ merges = EmptyBag
    /\ htlcs = EmptyBag
    /\ transport = IdleTransport
    /\ network = IdleNetwork
    /\ cliConfig = IdleConfig

-----------------------------------------------------------------------------
(* TransferValidator (validator.ts, incoming side of the conflicts) *)

\* One validator confidence unit is 1/ConfUnit, so that peers/10, depth/3 and
\* wait/10000 are whole numbers of units.
ConfUnit == 30000

\* The double x, exactly: x = (units + dev / 2^66) / ConfUnit.  units is the
\* decimal fraction the double stands for, dev what rounding has added to it.
Double(units, dev) == [units |-> units, dev |-> dev]

Zero == Double(0, 0)

RECURSIVE Pow2(_)
Pow2(n) == IF n = 0 THEN 1 ELSE 2 * Pow2(n - 1)

RECURSIVE Pow2Mod(_, _)
Pow2Mod(n, m) == IF n = 0 THEN 1 % m ELSE (2 * Pow2Mod(n - 1, m)) % m

\* The binade of a positive real below 2: the least j from j0 on with
\* 2^-j <= (units + dev / 2^66) / ConfUnit.
RECURSIVE Binade(_, _, _)
Binade(units, dev, j0) ==
    IF \/ units * Pow2(j0) > ConfUnit
       \/ units * Pow2(j0) = ConfUnit /\ dev >= 0
    THEN j0
    ELSE Binade(units, dev, j0 + 1)

\* IEEE 754 rounding of the real (units + dev / 2^66) / ConfUnit, which is 0
\* or in [2^-14, 2), to the nearest double, ties to the even mantissa.  In
\* binade j a double is a multiple of 2^-(52 + j); D is that step, R what the
\* real is above the multiple below it, both in units of 2^-66 / ConfUnit.
RoundDouble(units, dev) ==
    IF units = 0 /\ dev = 0 THEN Zero
    ELSE LET j   == Binade(units, dev, 0)
             sh  == Pow2(14 - j)
             D   == ConfUnit * sh
             rem(n) == ((units % ConfUnit) * Pow2Mod(n, ConfUnit)) % ConfUnit
             R   == (sh * rem(52 + j) + dev) % D
             odd == (2 * sh * rem(51 + j) + dev) % (2 * D) >= D
             up  == 2 * R > D \/ (2 * R = D /\ odd)
         IN  Double(units, IF up THEN dev - R + D ELSE dev - R)

\* The double of a decimal literal or of a quotient a / b of integers, b a
\* divisor of ConfUnit and a < 2 * b.
ToDouble(units) == RoundDouble(units, 0)

DoubleDiv(a, b) == ToDouble(a * (ConfUnit \div b))

\* x + y in doubles.
DoubleAdd(x, y) == RoundDouble(x.units + y.units, x.dev + y.dev)

\* x < y; one unit is 2^66 of dev, which stays below 2^31.
DoubleLt(x, y) ==
    x.units < y.units \/ (x.units = y.units /\ x.dev < y.dev)

\* Math.min(x, y)
DoubleMin(x, y) == IF DoubleLt(y, x) THEN y ELSE x

One == ToDouble(ConfUnit)

DefaultWaitTime == 5000

DeepWaitTime == 30000

\* The default of minConfidence, 0.7.
MinConfidence == ToDouble((7 * ConfUnit) \div 10)

\* getWitnessFederationDepth.
WitnessFederationDepth == 3

\* The peer score of the HEAD side of the conflict: peers / 100.
peerScore_hundred(gossipPeers) ==
    DoubleMin(DoubleDiv(gossipPeers, 100), ToDouble(ConfUnit \div 2))

peerScore(gossipPeers) ==
    DoubleMin(DoubleDiv(gossipPeers, 10), ToDouble(ConfUnit \div 2))

witnessScore(witnessDepth) ==
    DoubleMin(DoubleDiv(witnessDepth, 3), ToDouble((3 * ConfUnit) \div 10))

\* Math.min(waitTime / 10_000, 0.2); a quotient of 1 or more is above 0.2
\* whatever its last bits.
timeScore(wait) ==
    IF wait >= 10000 THEN ToDouble(ConfUnit \div 5)
    ELSE DoubleMin(DoubleDiv(wait, 10000), ToDouble(ConfUnit \div 5))

\* peerScore + witnessScore + timeScore, added from the left.
computeConfidence(gossipPeers, witnessDepth, wait) ==
    DoubleAdd(DoubleAdd(peerScore(gossipPeers), witnessScore(witnessDepth)),
              timeScore(wait))

\* A threshold that only a tally of every peer reaches.
exceedsThreshold_all(conf) == conf[1] >= conf[2]

\* gossipConfidence > DOUBLE_SPEND_THRESHOLD, with the threshold 0.5.
exceedsThreshold(conf) == 2 * conf[1] > conf[2]

\* An age gate that also closes at the limit itself.
ageExpired_inclusive(pkg) == now - pkg.proof.timestamp >= MaxTokenAge

\* Step 1: age > this.maxTokenAge.
ageExpired(pkg) == now - pkg.proof.timestamp > MaxTokenAge

Result(valid, confidence, reason) ==
    [valid |-> valid, confidence |-> confidence, reason |-> reason]

NoResult == Result(FALSE, Zero, Null)

\* A rejection that reports a confidence.
Rejected_scored(reason) == Result(FALSE, One, reason)

\* A tier rejects: valid false, confidence 0, and the tier's reason.
Rejected(reason) == Result(FALSE, Zero, reason)

\* A validator that accepts whatever the score.
Scored_lenient(wait) ==
    Result(TRUE, computeConfidence(Len(peerConnections), WitnessFederationDepth,
                                   wait),
           "Transfer validated successfully")

\* Steps 6 and 7: the score, and the threshold.
Scored(wait) ==
    LET confidence == computeConfidence(Len(peerConnections),
                                        WitnessFederationDepth, wait)
    IN  IF DoubleLt(confidence, minConfidence)
        THEN Result(FALSE, confidence, "Confidence below threshold")
        ELSE Result(TRUE, confidence, "Transfer validated successfully")

Run(mode, pkg, pc, result, original) ==
    [mode |-> mode, pkg |-> pkg, pc |-> pc, result |-> result,
     originalWaitTime |-> original]

\* Where a run goes when validateTransfer returns: deepValidate still has its
\* finally block to run.
Returned(mode) == IF mode = "deep" THEN "restore" ELSE "done"

\* validateTransfer (mode "standard"), or deepValidate (mode "deep") which sets
\* this.waitTime and calls it: steps 1 and 2, then witness.checkNullifier is
\* called.
ValidateStart(pkg, mode, extendedWaitTime) ==
    /\ mode \in {"standard", "deep"}
    /\ waitTime' = IF mode = "deep" THEN extendedWaitTime ELSE waitTime
    /\ validations' =
         BagAdd(validations,
            IF ageExpired(pkg)
            THEN Run(mode, pkg, Returned(mode), Rejected("Token expired"),
                     waitTime)
            ELSE IF exceedsThreshold(checkNullifier(pkg.nullifier))
            THEN Run(mode, pkg, Returned(mode),
                     Rejected("Double-spend detected in gossip network"),
                     waitTime)
            ELSE Run(mode, pkg, "witnessCheck", NoResult, waitTime))
    /\ UNCHANGED <<now, gossipVars, tokens, transfers, confIn, witness, freebird,
                   receives,
                   extVars>>

\* Step 3: witness.checkNullifier returns; then witness.verify is called.
ValidateWitnessChecked(r, witnessConfidence) ==
    /\ BagIn(r, validations)
    /\ r.pc = "witnessCheck"
    /\ validations' =
         BagMove(validations, r,
            IF witnessConfidence[1] > 0
            THEN [r EXCEPT !.pc = Returned(r.mode),
                           !.result =
                              Rejected("Double-spend proven by Witness federation")]
            ELSE [r EXCEPT !.pc = "verify"])
    /\ UNCHANGED <<now, gossipVars, tokens, transfers, waitTime, confIn, witness, freebird,
                   receives,
                   extVars>>

\* Step 4: witness.verify returns; then step 5 sleeps when waitTime > 0, and
\* otherwise the score is computed at once.
ValidateVerified(r) ==
    /\ BagIn(r, validations)
    /\ r.pc = "verify"
    /\ validations' =
         BagMove(validations, r,
            IF ~WitnessVerify(r.pkg.proof)
            THEN [r EXCEPT !.pc = Returned(r.mode),
                           !.result = Rejected("Invalid Witness attestation")]
            ELSE IF waitTime > 0
            THEN [r EXCEPT !.pc = "sleep"]
            ELSE [r EXCEPT !.pc = Returned(r.mode), !.result = Scored(waitTime)])
    /\ UNCHANGED <<now, gossipVars, tokens, transfers, waitTime, confIn, witness, freebird,
                   receives,
                   extVars>>

\* Step 5, after the sleep: the re-check, then steps 6 and 7.
ValidateWoke(r) ==
    /\ BagIn(r, validations)
    /\ r.pc = "sleep"
    /\ validations' =
         BagMove(validations, r,
            IF exceedsThreshold(checkNullifier(r.pkg.nullifier))
            THEN [r EXCEPT !.pc = Returned(r.mode),
                           !.result =
                              Rejected("Double-spend detected during propagation wait")]
            ELSE [r EXCEPT !.pc = Returned(r.mode), !.result = Scored(waitTime)])
    /\ UNCHANGED <<now, gossipVars, tokens, transfers, waitTime, confIn, witness, freebird,
                   receives,
                   extVars>>

\* deepValidate's finally block.
DeepRestore(r) ==
    /\ BagIn(r, validations)
    /\ r.pc = "restore"
    /\ waitTime' = r.originalWaitTime
    /\ validations' = BagMove(validations, r, [r EXCEPT !.pc = "done"])
    /\ UNCHANGED <<now, gossipVars, tokens, transfers, confIn, witness, freebird,
                   receives,
                   extVars>>

\* The values that callers pass to setMinConfidence: 0.5, 0.9 and 1.1.
ConfidenceChoices ==
    {ToDouble(ConfUnit \div 2), ToDouble((9 * ConfUnit) \div 10),
     ToDouble((11 * ConfUnit) \div 10)}

\* setMinConfidence(confidence): throws outside [0, 1], else assigns.
SetMinConfidence(confidence) ==
    /\ minConfidence' = IF DoubleLt(confidence, Zero) \/ DoubleLt(One, confidence)
                        THEN minConfidence ELSE confidence
    /\ UNCHANGED <<now, gossipVars, tokens, transfers, waitTime, validations,
                   confIn, witness, freebird, receives, merges, htlcs,
                   transport, network, cliConfig>>

\* fastValidate: the gossip check, then witness.verify is called.
FastStart(pkg) ==
    /\ validations' =
         BagAdd(validations,
            IF checkNullifier(pkg.nullifier)[1] > 0
            THEN Run("fast", pkg, "done",
                     Rejected("Double-spend detected in gossip"), waitTime)
            ELSE Run("fast", pkg, "fastVerify", NoResult, waitTime))
    /\ UNCHANGED <<now, gossipVars, tokens, transfers, waitTime, confIn, witness, freebird,
                   receives,
                   extVars>>

\* fastValidate when witness.verify returns.
FastVerified(r) ==
    /\ BagIn(r, validations)
    /\ r.pc = "fastVerify"
    /\ validations' =
         BagMove(validations, r,
            IF ~WitnessVerify(r.pkg.proof)
            THEN [r EXCEPT !.pc = "done",
                           !.result = Rejected("Invalid Witness attestation")]
            ELSE LET confidence == computeConfidence(Len(peerConnections),
                                                     WitnessFederationDepth, 0)
                 IN  [r EXCEPT
                        !.pc = "done",
                        !.result =
                           IF ~DoubleLt(confidence, minConfidence)
                           THEN Result(TRUE, confidence, "Fast validation passed")
                           ELSE Result(FALSE, confidence,
                                       "Insufficient confidence without wait period")])
    /\ UNCHANGED <<now, gossipVars, tokens, transfers, waitTime, confIn, witness, freebird,
                   receives,
                   extVars>>

\* A call of computeConfidence on given parameters, at two wait times.
ComputeConfidence ==
    /\ confIn.done = FALSE
    /\ confIn' = [confIn EXCEPT
                    !.done = TRUE,
                    !.a = computeConfidence(confIn.peers, confIn.depth, confIn.waitA),
                    !.b = computeConfidence(confIn.peers, confIn.depth, confIn.waitB)]
    /\ UNCHANGED <<now, gossipVars, tokens, transfers, waitTime, validations,
                   witness, freebird,
                   receives,
                   extVars>>

-----------------------------------------------------------------------------
(* The node: gossip and tokens *)

GenuineProof == Attestation(<<0>>, 0, "genuine")

ForgedProof == Attestation(<<0>>, 0, "forged")

InboundMsgs ==
    {NullifierMsg(n, p, 0) : n \in Nullifiers, p \in {GenuineProof, ForgedProof}}
    \cup {[type |-> "ping", nullifier |-> NoBytes, proof |-> NoProof,
           timestamp |-> 0]}

NoConfidence ==
    [peers |-> 0, depth |-> 0, waitA |-> 0, waitB |-> 0, done |-> TRUE,
     a |-> Zero, b |-> Zero]

InitCommon ==
    /\ now = 0
    /\ seenNullifiers = <<>>
    /\ sent = EmptyBag
    /\ receiving = EmptyBag
    /\ publishResult = NoPublish
    /\ pruned = [byAge |-> 0, byCap |-> 0]
    /\ transfers = EmptyBag
    /\ waitTime = DefaultWaitTime
    /\ minConfidence = MinConfidence
    /\ validations = EmptyBag
    /\ confIn = NoConfidence
    /\ witness = IdleWitness
    /\ freebird = IdleFreebird
    /\ receives = EmptyBag
    /\ InitExt

\* Instance 1 holds a token; instance 2 is built from the same id and secret,
\* or from another secret.
InitTokens ==
    \E s \in Secrets :
       tokens = [i \in Instances |->
                   Token(<<97>>, 100, IF i = 1 THEN <<1>> ELSE s)]

DefaultTokens == [i \in Instances |-> Token(<<97>>, 100, <<1>>)]

AllPeers == [i \in 1..NumPeers |-> i]

\* A node whose peers have been added, with no token activity.
InitNode(peerList, conn, handler) ==
    /\ InitCommon
    /\ peerConnections = peerList
    /\ connected = conn
    /\ receiveHandler = handler
    /\ tokens = DefaultTokens

ReceiveNext(msgs, cap) ==
    \/ \E m \in msgs : OnReceiveStart(m, cap)
    \/ \E h \in BagToSet(receiving), f \in FailChoices : OnReceiveVerified(h, f)
    \/ \E h \in BagToSet(receiving) : OnReceiveBroadcastDone(h)

\* Publishing and receiving on a node with connected peers.
InitPublish == InitNode(AllPeers, Peers, FALSE)

NextPublish ==
    \/ \E n \in Nullifiers, f \in FailChoices : ApiPublish(n, Attestation(<<0>>, now, "genuine"), f)
    \/ \E p \in BagToSet(publishResult.pending) : ApiPublishSettled(p)
    \/ ReceiveNext(InboundMsgs, MaxRecv)
    \/ Tick

SpecPublish == InitPublish /\ [][NextPublish]_vars

\* Insertions and the prune timer on a node whose peers are all down.
InitPrune == InitNode(AllPeers, {}, FALSE)

NextPrune ==
    \/ \E n \in Nullifiers, f \in FailChoices : ApiPublish(n, Attestation(<<0>>, now, "genuine"), f)
    \/ \E p \in BagToSet(publishResult.pending) : ApiPublishSettled(p)
    \/ ReceiveNext(InboundMsgs, MaxRecv)
    \/ Prune
    \/ Tick

SpecPrune == InitPrune /\ [][NextPrune]_vars

\* Deliveries only, on a node whose receive handler is registered at some
\* moment.
InitRecv == InitNode(AllPeers, Peers, FALSE)

NextRecv ==
    \/ SetReceiveHandler
    \/ ReceiveNext(InboundMsgs, MaxDeliveries)
    \/ \E h \in BagToSet(receiving) : OnReceiveHandlerDone(h)

SpecRecv == InitRecv /\ [][NextRecv]_vars

\* What the peers deliver while the node transfers, each message once: the
\* nullifier of the first token under a genuine attestation.
TokenMsgs ==
    {NullifierMsg(transferNullifier(DefaultTokens[1], 0), GenuineProof, 0)}

\* Transfers of the node's tokens, on a node that also takes deliveries from
\* its peers and runs its prune timer while a transfer is suspended.
InitToken ==
    /\ InitCommon
    /\ peerConnections = AllPeers
    /\ connected = Peers
    /\ receiveHandler = FALSE
    /\ InitTokens

NextToken ==
    \/ \E i \in Instances : TransferStart(i)
    \/ \E c \in BagToSet(transfers), k \in Commitments, ok \in BOOLEAN :
          TransferBlinded(c, k, ok)
    \/ \E c \in BagToSet(transfers), ok \in BOOLEAN : TransferOwnership(c, ok)
    \/ \E c \in BagToSet(transfers), ok \in BOOLEAN, f \in FailChoices :
          TransferTimestamped(c, ok, f)
    \/ \E c \in BagToSet(transfers) : TransferPublished(c)
    \/ ReceiveNext(TokenMsgs, Cardinality(TokenMsgs))
    \/ Prune
    \/ Tick

SpecToken == InitToken /\ [][NextToken]_vars

\* One validator call on a receiver with ten connected peers, while gossip about the
\* package's nullifier arrives.
ValPeers == 10

MaxValDeliveries == 6

ValNullifier == Hash(<<Bytes(<<1>>), Str(<<97>>)>>)

ValPkgs ==
    {[nullifier |-> ValNullifier, proof |-> Attestation(<<0>>, t, sigs)] :
       t \in 0..MaxTime, sigs \in {"genuine", "forged"}}

ValMsgs == {NullifierMsg(ValNullifier, GenuineProof, 0)}

\* WitnessAdapter.checkNullifier answers 0, 0.5 or 1.
WitnessAnswers == {<<0, 1>>, <<1, 2>>, <<1, 1>>}

InitValidate ==
    /\ InitNode([i \in 1..ValPeers |-> i], 1..ValPeers, FALSE)

\* The calls of the validator, one at a time.
ValidatorNext ==
    \/ \E pkg \in ValPkgs, mode \in {"standard", "deep"} :
          /\ validations = EmptyBag
          /\ ValidateStart(pkg, mode, DeepWaitTime)
    \/ \E r \in BagToSet(validations), w \in WitnessAnswers :
          ValidateWitnessChecked(r, w)
    \/ \E r \in BagToSet(validations) : ValidateVerified(r)
    \/ \E r \in BagToSet(validations) : ValidateWoke(r)
    \/ \E r \in BagToSet(validations) : DeepRestore(r)
    \/ \E pkg \in ValPkgs :
          /\ validations = EmptyBag
          /\ FastStart(pkg)
    \/ \E r \in BagToSet(validations) : FastVerified(r)

\* The validator under its default threshold.
NextValidate ==
    \/ ValidatorNext
    \/ ReceiveNext(ValMsgs, MaxValDeliveries)
    \/ Tick

SpecValidate == InitValidate /\ [][NextValidate]_vars

\* computeConfidence on its own.
MaxConfPeers == 11

MaxConfDepth == 4

WaitSamples == {0, 1, 1999, 2000, 2001, DefaultWaitTime, DeepWaitTime}

InitConfidence ==
    /\ now = 0
    /\ seenNullifiers = <<>>
    /\ sent = EmptyBag
    /\ receiving = EmptyBag
    /\ publishResult = NoPublish
    /\ pruned = [byAge |-> 0, byCap |-> 0]
    /\ transfers = EmptyBag
    /\ waitTime = DefaultWaitTime
    /\ minConfidence = MinConfidence
    /\ validations = EmptyBag
    /\ peerConnections = <<>>
    /\ connected = {}
    /\ receiveHandler = FALSE
    /\ tokens = DefaultTokens
    /\ witness = IdleWitness
    /\ freebird = IdleFreebird
    /\ receives = EmptyBag
    /\ InitExt
    /\ confIn \in [peers : 0..MaxConfPeers, depth : 0..MaxConfDepth,
                   waitA : WaitSamples, waitB : WaitSamples, done : {FALSE},
                   a : {Zero}, b : {Zero}]

SpecConfidence == InitConfidence /\ [][ComputeConfidence]_vars

\* One Witness adapter whose gateway comes and goes.  Date.now() is positive.
WitnessHashes == {ToHex(<<1>>)} \cup {ToHex(n) : n \in Nullifiers}

InitWitness ==
    /\ now = 1
    /\ seenNullifiers = <<>>
    /\ sent = EmptyBag
    /\ receiving = EmptyBag
    /\ publishResult = NoPublish
    /\ pruned = [byAge |-> 0, byCap |-> 0]
    /\ transfers = EmptyBag
    /\ waitTime = DefaultWaitTime
    /\ minConfidence = MinConfidence
    /\ validations = EmptyBag
    /\ peerConnections = <<>>
    /\ connected = {}
    /\ receiveHandler = FALSE
    /\ tokens = DefaultTokens
    /\ confIn = NoConfidence
    /\ \E g \in Gateways : witness = [IdleWitness EXCEPT !.gateway = g]
    /\ freebird = IdleFreebird
    /\ receives = EmptyBag
    /\ InitExt

NextWitness ==
    \/ \E g \in Gateways : GatewayChange(g)
    \/ \E h \in WitnessHashes : WitnessStart("timestamp", h, NoAttestation)
    \/ /\ witness.issued # NoAttestation
       /\ WitnessStart("verify", <<>>, witness.issued)
    \/ \E n \in Nullifiers : WitnessStart("checkNullifier", n, NoAttestation)
    \/ \E c \in Configs : WitnessInit(c)
    \/ \E form \in {"multi", "aggregated"} : TimestampDone(form)
    \/ VerifyDone
    \/ \E found \in FoundAnswers : CheckNullifierDone(found)
    \/ \E h \in WitnessHashes : WitnessStart("getAttestation", h, NoAttestation)
    \/ WitnessStart("getConfig", <<>>, NoAttestation)
    \/ \E form \in {"multi", "aggregated"} : GetAttestationDone(form)
    \/ GetConfigDone

SpecWitness == InitWitness /\ [][NextWitness]_vars

\* One Freebird adapter, with or without a verifier URL, its callers, and
\* issuers that answer or do not.
InitFreebird ==
    /\ now = 0
    /\ seenNullifiers = <<>>
    /\ sent = EmptyBag
    /\ receiving = EmptyBag
    /\ publishResult = NoPublish
    /\ pruned = [byAge |-> 0, byCap |-> 0]
    /\ transfers = EmptyBag
    /\ waitTime = DefaultWaitTime
    /\ minConfidence = MinConfidence
    /\ validations = EmptyBag
    /\ peerConnections = <<>>
    /\ connected = {}
    /\ receiveHandler = FALSE
    /\ tokens = DefaultTokens
    /\ confIn = NoConfidence
    /\ witness = IdleWitness
    /\ \E url \in BOOLEAN : freebird = [IdleFreebird EXCEPT !.verifierUrl = url]
    /\ receives = EmptyBag
    /\ InitExt

NextFreebird ==
    \/ \E k \in Callers : FreebirdStart(k, "blind", <<>>, NoToken)
    \/ \E k \in Callers, b \in Blinded : FreebirdStart(k, "issueToken", b, NoToken)
    \/ \E k \in Callers, t \in VerifyTokens : FreebirdStart(k, "verifyToken", <<>>, t)
    \/ \E k \in Callers : FreebirdInit(k)
    \/ \E k \in Callers, i \in Issuers, ok \in BOOLEAN : MetadataResponse(k, i, ok)
    \/ \E k \in Callers : FreebirdInitDone(k)
    \/ \E k \in Callers, b \in Blinded : BlindDone(k, b)
    \/ \E k \in Callers : IssueRequest(k)
    \/ \E k \in Callers, i \in Issuers, ok \in BOOLEAN : IssueResponse(k, i, ok)
    \/ \E k \in Callers : IssueDone(k)
    \/ \E k \in Callers : VerifyTokenRequest(k)
    \/ \E k \in Callers, a \in VerifierAnswers : VerifyTokenDone(k, a)

SpecFreebird == InitFreebird /\ [][NextFreebird]_vars

\* Packages handed to receive: with a genuine or a forged attestation, with
\* or without an ownership proof.
ReceivePkgs ==
    {[tokenId |-> <<97>>, amount |-> 100, commitment |-> <<7>>,
      nullifier |-> ValNullifier, proof |-> p, ownershipProof |-> o] :
        p \in {GenuineProof, ForgedProof},
        o \in {NoBytes, createOwnershipProof(<<1>>)}}

InitReceive == InitNode(<<>>, {}, FALSE)

NextReceive ==
    \/ \E pkg \in ReceivePkgs, s \in Secrets : ReceiveStart(pkg, s)
    \/ \E r \in BagToSet(receives) : ReceiveVerified(r)
    \/ \E r \in BagToSet(receives), v \in BOOLEAN : ReceiveOwnershipVerified(r, v)

SpecReceive == InitReceive /\ [][NextReceive]_vars

\* Transfers attested by a reachable Witness federation, and standard
\* validation on the same node and adapter, with ten peers.
FederationPkgs == {[nullifier |-> n, proof |-> GenuineProof] : n \in Nullifiers}

InitFederation ==
    /\ now = 0
    /\ seenNullifiers = <<>>
    /\ sent = EmptyBag
    /\ receiving = EmptyBag
    /\ publishResult = NoPublish
    /\ pruned = [byAge |-> 0, byCap |-> 0]
    /\ transfers = EmptyBag
    /\ waitTime = DefaultWaitTime
    /\ minConfidence = MinConfidence
    /\ validations = EmptyBag
    /\ confIn = NoConfidence
    /\ peerConnections = [i \in 1..ValPeers |-> i]
    /\ connected = {}
    /\ receiveHandler = FALSE
    /\ InitTokens
    /\ \E c \in Configs :
          witness = [IdleWitness EXCEPT !.config = c, !.gateway = "up"]
    /\ freebird = IdleFreebird
    /\ receives = EmptyBag
    /\ InitExt

NextFederation ==
    \/ \E i \in Instances : TransferStart(i)
    \/ \E c \in BagToSet(transfers), k \in Commitments, ok \in BOOLEAN :
          TransferBlinded(c, k, ok)
    \/ \E c \in BagToSet(transfers), ok \in BOOLEAN : TransferOwnership(c, ok)
    \/ \E c \in BagToSet(transfers), ok \in BOOLEAN :
          TransferTimestamped(c, ok, {})
    \/ \E c \in BagToSet(transfers) : TransferPublished(c)
    \/ \E pkg \in FederationPkgs :
          /\ validations = EmptyBag
          /\ ValidateStart(pkg, "standard", DeepWaitTime)
    \/ \E r \in BagToSet(validations), found \in FoundAnswers :
          ValidateWitnessChecked(r, witnessCheckNullifier(r.pkg.nullifier, found))
    \/ \E r \in BagToSet(validations) : ValidateVerified(r)
    \/ \E r \in BagToSet(validations) : ValidateWoke(r)

SpecFederation == InitFederation /\ [][NextFederation]_vars

-----------------------------------------------------------------------------
(* Validation on nodes with few and with enough peers *)

InitTiers ==
    \E k \in {0, 1, ValPeers} : InitNode([i \in 1..k |-> i], 1..k, FALSE)

SpecTiers == InitTiers /\ [][NextValidate]_vars

\* Nodes with no, one, four and enough peers; with four the three scores are
\* 0.4, 0.3 and 0.2.
InitThreshold ==
    \E k \in {0, 1, 4, ValPeers} : InitNode([i \in 1..k |-> i], 1..k, FALSE)

\* The validator while its threshold is changed.
NextThreshold ==
    \/ ValidatorNext
    \/ \E c \in ConfidenceChoices : SetMinConfidence(c)
    \/ ReceiveNext(ValMsgs, MaxValDeliveries)

SpecThreshold == InitThreshold /\ [][NextThreshold]_vars

-----------------------------------------------------------------------------
(* Sweeps of a node whose entries outlive a tick *)

NextSweep ==
    \/ \E n \in Nullifiers, f \in FailChoices :
          ApiPublish(n, Attestation(<<0>>, now, "genuine"), f)
    \/ \E p \in BagToSet(publishResult.pending) : ApiPublishSettled(p)
    \/ ReceiveNext(InboundMsgs, MaxRecv)
    \/ Sweep
    \/ SweepTick

SpecSweep == InitPrune /\ [][NextSweep]_vars

-----------------------------------------------------------------------------
(* Merging tokens *)

InitMerge ==
    /\ InitCommon
    /\ peerConnections = AllPeers
    /\ connected = Peers
    /\ receiveHandler = FALSE
    /\ InitTokens

NextMerge ==
    \/ \E S \in SUBSET Instances : MergeStart(S)
    \/ \E c \in BagToSet(merges), ok \in BOOLEAN, f \in FailChoices :
          MergeTimestamped(c, ok, f)
    \/ \E c \in BagToSet(merges), f \in FailChoices : MergePublished(c, f)
    \/ \E c \in BagToSet(merges) : MergeCommit(c)
    \/ \E c \in BagToSet(merges), s \in Secrets : MergeReceived(c, s)

SpecMerge == InitMerge /\ [][NextMerge]_vars

-----------------------------------------------------------------------------
(* Time-locked packages *)

InitHTLC == InitNode(<<>>, {}, FALSE)

NextHTLC ==
    \/ \E t \in Timelocks, k \in RefundKeys : TransferHTLC(t, k)
    \/ \E h \in BagToSet(htlcs) : ReceiveHTLC(h)
    \/ \E h \in BagToSet(htlcs) : RefundHTLC(h)
    \/ Tick

SpecHTLC == InitHTLC /\ [][NextHTLC]_vars

-----------------------------------------------------------------------------
(* The transport *)

InitTransport ==
    /\ now = 0
    /\ seenNullifiers = <<>>
    /\ sent = EmptyBag
    /\ receiving = EmptyBag
    /\ publishResult = NoPublish
    /\ pruned = [byAge |-> 0, byCap |-> 0]
    /\ transfers = EmptyBag
    /\ waitTime = DefaultWaitTime
    /\ minConfidence = MinConfidence
    /\ validations = EmptyBag
    /\ peerConnections = <<>>
    /\ connected = {}
    /\ receiveHandler = FALSE
    /\ tokens = DefaultTokens
    /\ confIn = NoConfidence
    /\ witness = IdleWitness
    /\ freebird = IdleFreebird
    /\ receives = EmptyBag
    /\ merges = EmptyBag
    /\ htlcs = EmptyBag
    /\ \E payload \in BOOLEAN :
          transport = [IdleTransport EXCEPT !.payload = payload]
    /\ network = IdleNetwork
    /\ cliConfig = IdleConfig

NextTransport ==
    \/ TransportConnect
    \/ \E g \in Managers : TransportOpen(g)
    \/ \E g \in Managers : TransportWelcome(g)
    \/ TransportConnectFailed
    \/ \E g \in Managers, p \in TPeers : TransportPeerJoined(g, p)
    \/ \E g \in Managers, p \in TPeers : TransportPeerLeft(g, p)
    \/ \E p \in TPeers : TransportCreatePeer(p)
    \/ TransportDisconnect
    \/ \E g \in Managers : TransportClosed(g)
    \/ \E w \in transport.held : TransportSend(w)

SpecTransport == InitTransport /\ [][NextTransport]_vars

-----------------------------------------------------------------------------
(* The gossip network *)

InitNetwork == InitNode(<<>>, {}, FALSE)

NextNetwork ==
    \/ \E i \in Nodes, n \in NetNullifiers : NetPublish(i, n)
    \/ \E m \in network.inflight : NetReceive(m)
    \/ \E m \in network.handling : NetVerified(m)

SpecNetwork == InitNetwork /\ [][NextNetwork]_vars

NetMsgs == {NetMsg(i, j, n) : i \in Nodes, j \in Nodes, n \in NetNullifiers}

\* Every sent message is eventually delivered and every handler invocation
\* eventually resumes.
FairNetwork ==
    \A m \in NetMsgs : WF_vars(NetReceive(m)) /\ WF_vars(NetVerified(m))

SpecNetworkFair == InitNetwork /\ [][NextNetwork]_vars /\ FairNetwork

-----------------------------------------------------------------------------
(* The prune timer on a node whose clock differs from the Witness's *)

\* Deliveries whose attestation is dated by the Witness's clock, which may be
\* behind or ahead of the node's.
SkewMsgs ==
    {NullifierMsg(n, Attestation(<<0>>, t, "genuine"), 0) :
       n \in Nullifiers, t \in 0..MaxTime}

NextSkew ==
    \/ \E n \in Nullifiers, f \in FailChoices :
          ApiPublish(n, Attestation(<<0>>, now, "genuine"), f)
    \/ \E p \in BagToSet(publishResult.pending) : ApiPublishSettled(p)
    \/ ReceiveNext(SkewMsgs, MaxRecv)
    \/ Prune
    \/ Tick

SpecSkew == InitPrune /\ [][NextSkew]_vars

-----------------------------------------------------------------------------
(* Validator calls that overlap *)

MaxValidations == 2

NextOverlap ==
    \/ \E pkg \in ValPkgs, mode \in {"standard", "deep"} :
          /\ BagCardinality(validations) < MaxValidations
          /\ ValidateStart(pkg, mode, DeepWaitTime)
    \/ \E r \in BagToSet(validations), w \in WitnessAnswers :
          ValidateWitnessChecked(r, w)
    \/ \E r \in BagToSet(validations) : ValidateVerified(r)
    \/ \E r \in BagToSet(validations) : ValidateWoke(r)
    \/ \E r \in BagToSet(validations) : DeepRestore(r)

SpecOverlap == InitValidate /\ [][NextOverlap]_vars

-----------------------------------------------------------------------------
(* Transfers whose packages are handed to receive *)

\* transfer, step I: the package that a returned call hands out.
PackageOf(c) ==
    [tokenId |-> tokens[c.inst].id, amount |-> tokens[c.inst].amount,
     commitment |-> c.commitment, nullifier |-> c.nullifier,
     proof |-> c.proof, ownershipProof |-> c.ownershipProof]

\* The packages in the hands of recipients.
SentPkgs == {PackageOf(c) : c \in {d \in BagToSet(transfers) : d.pc = "returned"}}

\* The amounts that someone on the way writes into a package.
TamperedAmounts == {1000}

\* A package whose amount was changed after it was timestamped.
Tampered(pkg, a) == [pkg EXCEPT !.amount = a]

TamperedPkgs == {Tampered(pkg, a) : pkg \in SentPkgs, a \in TamperedAmounts}

ExchangeNext(pkgs) ==
    \/ \E i \in Instances : TransferStart(i)
    \/ \E c \in BagToSet(transfers), k \in Commitments, ok \in BOOLEAN :
          TransferBlinded(c, k, ok)
    \/ \E c \in BagToSet(transfers), ok \in BOOLEAN : TransferOwnership(c, ok)
    \/ \E c \in BagToSet(transfers), ok \in BOOLEAN, f \in FailChoices :
          TransferTimestamped(c, ok, f)
    \/ \E c \in BagToSet(transfers) : TransferPublished(c)
    \/ \E pkg \in pkgs, s \in Secrets : ReceiveStart(pkg, s)
    \/ \E r \in BagToSet(receives) : ReceiveVerified(r)
    \/ \E r \in BagToSet(receives), v \in BOOLEAN : ReceiveOwnershipVerified(r, v)

\* Recipients receive the packages as they were sent.
NextExchange == ExchangeNext(SentPkgs)

SpecExchange == InitToken /\ [][NextExchange]_vars

\* Recipients receive packages that were sent and packages that were changed.
NextTamper == ExchangeNext(SentPkgs \cup TamperedPkgs)

SpecTamper == InitToken /\ [][NextTamper]_vars

-----------------------------------------------------------------------------
(* The configuration of the command line *)

NextConfig ==
    \/ \E f \in ConfigFiles : ConfigFileWritten(f)
    \/ ConfigLoad
    \/ \E k \in ConfigPaths, v \in ConfigValues : ConfigSet(k, v)
    \/ ConfigReset

SpecConfig == InitNode(<<>>, {}, FALSE) /\ [][NextConfig]_vars

-----------------------------------------------------------------------------
(* Claims *)

SameToken(i, j) ==
    /\ tokens[i].id = tokens[j].id
    /\ tokens[i].secret = tokens[j].secret

\* The calls of transfer() that are past step A and have not thrown.
LiveCalls == {c \in BagToSet(transfers) : c.nullifier # NoBytes}

C1_SameNullifier ==
    \A c1 \in LiveCalls, c2 \in LiveCalls :
       SameToken(c1.inst, c2.inst) => c1.nullifier = c2.nullifier

\* A spend of the token of instance i is on record: a transfer of the same id
\* and secret has published, and the seen set holds its nullifier.
FirstSpendSeen(i) ==
    \E c1 \in LiveCalls :
       /\ c1.pc \in {"publish", "returned"}
       /\ SameToken(c1.inst, i)
       /\ Has(seenNullifiers, ToHex(c1.nullifier))

C1_SecondSpendStep ==
    \A c \in BagToSet(transfers), f \in FailChoices :
       (TransferTimestamped(c, TRUE, f) /\ FirstSpendSeen(c.inst))
       => /\ CopiesIn(Threw(c, "DoubleSpend"), transfers')
               = CopiesIn(Threw(c, "DoubleSpend"), transfers) + 1
          /\ \A r \in BagToSet(transfers') :
                r.pc = "returned" => CopiesIn(r, transfers') = CopiesIn(r, transfers)
          /\ UNCHANGED <<seenNullifiers, sent, tokens>>

\* C1: all spends of one token (same id and secret) carry one nullifier,
\* whenever and on whichever instance they are made; and when the seen set
\* holds the nullifier of a first spend, a second transfer of the token fails
\* in gossip.publish with the double-spend error and returns no package.
C1_NullifierReuse == []C1_SameNullifier /\ [][C1_SecondSpendStep]_vars

\* Instance 1 has spent the token and the transfer from instance 2, built from
\* the same id and secret at a later time, threw the double-spend error.
C1_Witness ==
    /\ SameToken(1, 2)
    /\ \E c1 \in BagToSet(transfers) :
          /\ c1.pc = "returned"
          /\ c1.inst = 1
          /\ c1.proof.timestamp < now
    /\ BagIn(Threw([IdleCall EXCEPT !.inst = 2], "DoubleSpend"), transfers)

C2_SpentStays == \A i \in Instances : tokens[i].spent => tokens'[i].spent

C2_LaterTransferStep ==
    \A i \in Instances :
       (TransferStart(i) /\ tokens[i].spent)
       => /\ transfers' =
               BagAdd(transfers,
                      Threw([IdleCall EXCEPT !.inst = i], "Token already spent"))
          /\ UNCHANGED <<gossipVars, tokens>>

\* C2: once spent is true it stays true, and a transfer() started on a spent
\* instance throws 'Token already spent' at once: it never reaches the calls
\* of Freebird, Witness or gossip, and changes nothing else.
C2_AlreadySpent == [][C2_SpentStays /\ C2_LaterTransferStep]_vars

\* A transfer completed on an instance and a later one on it threw.
C2_Witness ==
    \E i \in Instances :
       /\ tokens[i].spent
       /\ \E c \in BagToSet(transfers) : c.pc = "returned" /\ c.inst = i
       /\ BagIn(Threw([IdleCall EXCEPT !.inst = i], "Token already spent"),
                transfers)

C3_RepublishStep ==
    \A n \in Nullifiers, f \in FailChoices :
       (/\ ApiPublish(n, Attestation(<<0>>, now, "genuine"), f)
        /\ Has(seenNullifiers, ToHex(n)))
       => /\ publishResult' = [publishResult EXCEPT !.nullifier = n,
                                                     !.result = "DoubleSpend"]
          /\ UNCHANGED <<seenNullifiers, sent>>

\* C3: publish of a nullifier that is in the seen set, whether an earlier
\* publish or onReceive put it there, raises the double-spend error, leaves
\* the record as it was and sends nothing.
C3_PublishSeen == [][C3_RepublishStep]_vars

\* A publish was refused for a nullifier that onReceive had put in the seen
\* set at an earlier time.
C3_Witness ==
    /\ publishResult.result = "DoubleSpend"
    /\ \E i \in DOMAIN seenNullifiers :
          /\ seenNullifiers[i].nullifier = publishResult.nullifier
          /\ seenNullifiers[i].firstSeen < now
    /\ \E h \in BagToSet(receiving) :
          /\ h.existing = "absent"
          /\ h.msg.nullifier = publishResult.nullifier

\* peer_count / max(number of peers, 1) > 0.5 for the record of n.
OverHalf(n) ==
    \E i \in DOMAIN seenNullifiers :
       /\ seenNullifiers[i].nullifier = n
       /\ 2 * Min(seenNullifiers[i].peerCount, Max(Len(peerConnections), 1))
            > Max(Len(peerConnections), 1)

Age(pkg) == now - pkg.proof.timestamp

ValModes == {"standard", "deep"}

\* The first gossip check of a standard or deep validation, which a call
\* reaches when it has passed the age gate.
C4_FirstCheckStep ==
    \A pkg \in ValPkgs, mode \in ValModes :
       (/\ ValidateStart(pkg, mode, DeepWaitTime)
        /\ Age(pkg) <= MaxTokenAge
        /\ OverHalf(pkg.nullifier))
       => validations' =
            BagAdd(validations,
                   Run(mode, pkg, Returned(mode),
                       Result(FALSE, Zero, "Double-spend detected in gossip network"),
                       waitTime))

C4_ReCheckStep ==
    \A r \in BagToSet(validations) :
       (ValidateWoke(r) /\ OverHalf(r.pkg.nullifier))
       => validations' =
            BagMove(validations, r,
                    [r EXCEPT
                       !.pc = Returned(r.mode),
                       !.result =
                          Result(FALSE, Zero,
                                 "Double-spend detected during propagation wait")])

\* C4, as stated: when the seen set holds the package's nullifier with
\* peer_count / max(peers, 1) > 0.5, validateTransfer of any package that
\* carries it returns valid = false, confidence 0 and a gossip double-spend
\* reason, at the first gossip check as at the re-check.
C4_AnyPackageRejected ==
    [][/\ \A pkg \in ValPkgs, mode \in ValModes :
            (ValidateStart(pkg, mode, DeepWaitTime) /\ OverHalf(pkg.nullifier))
            => validations' =
                 BagAdd(validations,
                        Run(mode, pkg, Returned(mode),
                            Rejected("Double-spend detected in gossip network"),
                            waitTime))
       /\ C4_ReCheckStep]_vars

\* C4, amended: when the seen set holds the package's nullifier with
\* peer_count / max(peers, 1) > 0.5, validateTransfer of a package that is
\* not older than max_token_age returns valid = false, confidence 0 and a
\* gossip double-spend reason, both when this is so at the first gossip check
\* and when it is first so at the re-check after the wait; an older package
\* is rejected with valid = false and confidence 0 as expired, before the
\* seen set is consulted.
C4_ExpiredStep ==
    \A pkg \in ValPkgs, mode \in ValModes :
       (/\ ValidateStart(pkg, mode, DeepWaitTime)
        /\ Age(pkg) > MaxTokenAge
        /\ OverHalf(pkg.nullifier))
       => validations' =
            BagAdd(validations,
                   Run(mode, pkg, Returned(mode), Rejected("Token expired"),
                       waitTime))

C4_GossipRejects ==
    [][C4_FirstCheckStep /\ C4_ExpiredStep /\ C4_ReCheckStep]_vars

\* A validation that passed the first check with the tally at or below half
\* was rejected at the re-check, the tally being over half but short of all
\* the peers.
C4_Witness ==
    /\ OverHalf(ValNullifier)
    /\ checkNullifier(ValNullifier) # <<1, 1>>
    /\ \E r \in BagToSet(validations) :
          /\ r.pc = "done"
          /\ r.result = Rejected("Double-spend detected during propagation wait")

\* C5: a package whose nullifier was published by one spend only is accepted
\* by standard validation (valid, confidence >= 0.7) on a receiver with ten
\* connected peers under the default wait and threshold, however many gossip
\* deliveries of the nullifier reach the receiver before or during the wait.
\* The Witness federation knows of no second spend and the attestation is
\* genuine and not expired, so no other step has cause to reject.
C5_LegitimateAccepted ==
    \A r \in BagToSet(validations) :
       (/\ r.mode = "standard"
        /\ r.pc = "done"
        /\ r.originalWaitTime = DefaultWaitTime
        /\ WitnessVerify(r.pkg.proof)
        /\ r.result.reason \notin
             {"Token expired", "Double-spend proven by Witness federation"})
       => /\ r.result.valid
          /\ ~DoubleLt(r.result.confidence, MinConfidence)

C6_ExpiredStep ==
    \A pkg \in ValPkgs, mode \in ValModes :
       ValidateStart(pkg, mode, DeepWaitTime)
       => /\ Age(pkg) > MaxTokenAge
             => /\ validations' =
                     BagAdd(validations,
                            Run(mode, pkg, Returned(mode),
                                Result(FALSE, Zero, "Token expired"), waitTime))
                /\ UNCHANGED gossipVars
          /\ Age(pkg) = MaxTokenAge
             => \A r \in BagToSet(validations') :
                   r.result.reason # "Token expired"

\* The expired reason is given by the age gate only, so a run that waits for
\* the Witness federation or sleeps has not been rejected as expired.
C6_OnlyTheGate ==
    \A r \in BagToSet(validations) :
       r.result.reason = "Token expired"
       => /\ r.mode \in ValModes
          /\ r.pc \in {"restore", "done"}
          /\ r.result = Rejected("Token expired")

\* C6: validateTransfer, and deepValidate around it, reject with the expired
\* reason and confidence 0 every package with now - proof.timestamp >
\* max_token_age, at once and whatever the seen set and the Witness federation
\* hold; a package whose age is exactly max_token_age passes the gate.
C6_AgeGate == []C6_OnlyTheGate /\ [][C6_ExpiredStep]_vars

\* An expired package was rejected by the gate although more than half of the
\* peers had reported its nullifier.
C6_Witness ==
    /\ OverHalf(ValNullifier)
    /\ \E r \in BagToSet(validations) :
          /\ r.pc = "done"
          /\ r.mode = "deep"
          /\ r.result = Rejected("Token expired")

\* What steps 1 and 2 of standard validation decide for pkg in this state.
StandardRejectsAtGossip(pkg) == Age(pkg) > MaxTokenAge \/ OverHalf(pkg.nullifier)

C7_FastStartStep ==
    \A pkg \in ValPkgs :
       FastStart(pkg)
       => \E r \in BagToSet(validations') :
             /\ r.mode = "fast"
             /\ r.pkg = pkg
             /\ (r.pc = "done" /\ ~r.result.valid) <=> StandardRejectsAtGossip(pkg)

\* C7: fastValidate rejects exactly the packages that steps 1 to 4 of
\* standard validation reject; here, for steps 1 and 2: a fast validation is
\* rejected in its gossip step exactly when the package is expired or its
\* nullifier's gossip confidence is over 0.5.
C7_FastIsStepsOneToFour == [][C7_FastStartStep]_vars

\* min(peers/10, 0.5) + min(depth/3, 0.3) + min(wait/10000, 0.2), in units of
\* 1/ConfUnit, written with each quotient cleared of its denominator.
SpecConfidenceValue(peers, depth, wait) ==
    (IF 2 * peers <= 10 THEN (peers * ConfUnit) \div 10 ELSE ConfUnit \div 2)
    + (IF 10 * depth <= 3 * 3 THEN (depth * ConfUnit) \div 3
       ELSE (3 * ConfUnit) \div 10)
    + (IF 5 * wait <= 10000 THEN (wait * ConfUnit) \div 10000
       ELSE ConfUnit \div 5)

\* A double within 2^-52 of the decimal fraction it stands for.
Nearest(x, units) ==
    /\ x.units = units
    /\ 0 - ConfUnit * Pow2(14) <= x.dev /\ x.dev <= ConfUnit * Pow2(14)

\* C8: computeConfidence(peers, depth, wait) is min(peers/10, 0.5) +
\* min(depth/3, 0.3) + min(wait/10000, 0.2), to the precision of a double; it
\* is within [0, 1] for non-negative inputs, and for fixed peers and depth it
\* does not decrease when wait grows.
C8_Confidence ==
    confIn.done
    => /\ Nearest(confIn.a,
                  SpecConfidenceValue(confIn.peers, confIn.depth, confIn.waitA))
       /\ Nearest(confIn.b,
                  SpecConfidenceValue(confIn.peers, confIn.depth, confIn.waitB))
       /\ ~DoubleLt(confIn.a, Zero) /\ ~DoubleLt(One, confIn.a)
       /\ confIn.waitA <= confIn.waitB => ~DoubleLt(confIn.b, confIn.a)

\* A call below every cap at the first wait and at every cap at the second.
C8_Witness ==
    /\ confIn.done
    /\ confIn.peers = 3 /\ confIn.depth = 0
    /\ confIn.waitA = 1999 /\ confIn.waitB = 2001
    /\ DoubleLt(confIn.a, confIn.b)

\* C9: in every reachable state of a gossip node, between two runs of the
\* prune timer too, the seen set holds at most max_nullifiers entries.
C9_SizeBound == Len(seenNullifiers) <= MaxNullifiers

\* The handlers of valid messages about n that have counted their sighting.
Counted(n) ==
    {h \in BagToSet(receiving) :
       /\ h.msg.type = "nullifier"
       /\ h.msg.nullifier = n
       /\ WitnessVerify(h.msg.proof)
       /\ h.existing # "unset"}

RECURSIVE SumCopies(_, _)
SumCopies(S, B) ==
    IF S = {} THEN 0
    ELSE LET x == CHOOSE y \in S : TRUE
         IN  CopiesIn(x, B) + SumCopies(S \ {x}, B)

RecordsOf(n) == {i \in DOMAIN seenNullifiers : seenNullifiers[i].nullifier = n}

\* The messages about n that the node has sent on.
ForwardsOf(n) == {m \in BagToSet(sent) : m.msg.nullifier = n}

\* C10: when k valid 'nullifier' messages about one unseen nullifier have
\* been delivered and counted, in any order and with their witness.verify
\* awaits interleaved in any way, the seen set holds exactly one record of it
\* with peer_count = k: one message made the insert and the one re-broadcast
\* (one send to each connected peer at most), the others only incremented.
C10_Tally ==
    \A n \in Nullifiers :
       LET k == SumCopies(Counted(n), receiving) IN
       IF k = 0 THEN RecordsOf(n) = {} /\ ForwardsOf(n) = {}
       ELSE /\ Cardinality(RecordsOf(n)) = 1
            /\ \A i \in RecordsOf(n) : seenNullifiers[i].peerCount = k
            /\ SumCopies({h \in Counted(n) : h.existing = "absent"}, receiving) = 1
            /\ SumCopies({h \in Counted(n) : h.existing = "present"}, receiving)
                 = k - 1
            /\ SumCopies(ForwardsOf(n), sent) <= Len(BroadcastTargets)
            /\ \A m \in ForwardsOf(n) : CopiesIn(m, sent) = 1

\* All MaxDeliveries messages were valid, about one nullifier, and are done.
C10_Witness ==
    \E n \in Nullifiers :
       /\ SumCopies(Counted(n), receiving) = MaxDeliveries
       /\ \A h \in BagToSet(receiving) : h.pc = "done"
       /\ ForwardsOf(n) # {}

\* The finished deliveries of nullifier messages whose proof the Witness
\* federation rejects.
InvalidDone ==
    {h \in BagToSet(receiving) :
       /\ h.msg.type = "nullifier"
       /\ h.msg.proof # NoProof
       /\ ~WitnessVerify(h.msg.proof)
       /\ h.pc = "done"}

\* The sum of f over S.
RECURSIVE SumOver(_, _)
SumOver(S, f) ==
    IF S = {} THEN 0
    ELSE LET x == CHOOSE y \in S : TRUE IN f[x] + SumOver(S \ {x}, f)

InvalidProofCount == [p \in Peers |-> getPeerStats(p).invalidProofs]

PeerScore == [p \in Peers |-> getPeerStats(p).score]

C11_InvalidProofStep ==
    \A h \in BagToSet(receiving), f \in FailChoices :
       (OnReceiveVerified(h, f) /\ ~WitnessVerify(h.msg.proof))
       => /\ UNCHANGED <<seenNullifiers, sent>>
          /\ receiving' = BagMove(receiving, h, [h EXCEPT !.pc = "done"])

\* Every rejected proof is on some sender's account: the invalid-proof counts
\* of the peers add up to the number of such deliveries, and while no valid
\* message has been counted their scores add up to -10 for each.
C11_SendersPenalised ==
    LET k == SumCopies(InvalidDone, receiving) IN
    /\ SumOver(Peers, InvalidProofCount) = k
    /\ (\A n \in Nullifiers : Counted(n) = {})
       => SumOver(Peers, PeerScore) = -10 * k

\* C11: when witness.verify(proof) is false for an inbound nullifier message,
\* onReceive stores no record, changes no record, forwards nothing and does
\* not call the receive handler, and the sending peer's score is lowered by 10
\* and its invalid-proof count raised by 1.
C11_InvalidProofRejected ==
    [][C11_InvalidProofStep]_vars /\ []C11_SendersPenalised

\* The record of the seen set for nullifier n holds proof.
Published(n, proof) ==
    \E i \in DOMAIN seenNullifiers :
       /\ seenNullifiers[i].key = ToHex(n)
       /\ seenNullifiers[i].proof = proof

\* A spent token has a transfer that returned, and a returned package carries
\* the attestation witness.timestamp gave for it.
C12_SpentHasReturned ==
    /\ \A i \in Instances :
          tokens[i].spent
          => \E c \in BagToSet(transfers) : c.inst = i /\ c.pc = "returned"
    /\ \A c \in BagToSet(transfers) :
          c.pc = "returned"
          => /\ c.proof # NoProof
             /\ c.proof.hash = hashTransferPackage(transferPkg(c))
             /\ tokens[c.inst].spent

\* A call comes to await gossip.publish only in a step that puts its
\* nullifier, absent until then, into the seen set with its attestation.
C12_PublishStep ==
    \A r \in BagToSet(transfers') :
       (r.pc = "publish" /\ CopiesIn(r, transfers') > CopiesIn(r, transfers))
       => /\ ~Has(seenNullifiers, ToHex(r.nullifier))
          /\ \E i \in DOMAIN seenNullifiers' :
                /\ seenNullifiers'[i].key = ToHex(r.nullifier)
                /\ seenNullifiers'[i].proof = r.proof

\* The step that sets spent resumes a call whose gossip.publish has settled
\* without error.
C12_SpentStep ==
    \A i \in Instances :
       (~tokens[i].spent /\ tokens'[i].spent)
       => \E c \in BagToSet(transfers) :
             /\ c.inst = i
             /\ c.pc = "publish"
             /\ c.error = Null
             /\ TransferPublished(c)

\* C12, as stated: the spent flag becomes true only after gossip.publish has
\* been invoked for the token's nullifier, and at the moment it becomes true
\* the nullifier is in the local seen set.
C12_SpentWhileSeen ==
    [][\A i \in Instances :
          (~tokens[i].spent /\ tokens'[i].spent)
          => \E c \in BagToSet(transfers) :
                /\ c.inst = i
                /\ c.pc = "publish"
                /\ Published(c.nullifier, c.proof)]_vars

\* C12, amended: in transfer() the spent flag becomes true only after
\* gossip.publish for the token's nullifier has been invoked and has settled
\* without error, that publish having put the nullifier into the local seen
\* set (from which the prune timer may have removed it again by then), and the
\* package is returned only after witness.timestamp has returned; whichever
\* await throws or is never resumed, no token is marked spent whose nullifier
\* was not published.
C12_SpentAfterPublish ==
    []C12_SpentHasReturned /\ [][C12_PublishStep /\ C12_SpentStep]_vars

\* A token is marked spent and the sweep has removed the record that its
\* publish stored; the transfer of the other instance threw at
\* witness.timestamp and left its token unspent.
C12_Witness ==
    /\ tokens[1].spent
    /\ ~tokens[2].spent
    /\ pruned.byAge = 1
    /\ ~Has(seenNullifiers, ToHex(transferNullifier(tokens[1], now)))
    /\ BagIn(Threw([IdleCall EXCEPT !.inst = 2], "Witness failed"), transfers)

\* The call c as it stands after a step that resumed it.
Resumed(c, pc) ==
    {r \in BagToSet(transfers') :
       /\ r.inst = c.inst
       /\ r.pc = pc
       /\ CopiesIn(r, transfers') > CopiesIn(r, transfers)}

\* gossip.publish, called by transfer() for a nullifier not yet seen, with the
\* sends to the peers in f failing: the nullifier is in the seen set when the
\* sends are awaited, every other connected peer is sent the message, and
\* publish is on its way to completing without error.
C13_PublishStep ==
    \A c \in BagToSet(transfers), f \in FailChoices :
       (TransferTimestamped(c, TRUE, f) /\ ~publishRejects(c.nullifier))
       => /\ Has(seenNullifiers', ToHex(c.nullifier))
          /\ \A p \in connected \ f :
                \E m \in BagToSet(sent') :
                   /\ m.to = p
                   /\ m.msg.nullifier = c.nullifier
                   /\ CopiesIn(m, sent') > CopiesIn(m, sent)
          /\ \E r \in Resumed(c, "publish") : r.error = Null

\* A transfer whose publish was invoked marks the token spent and returns.
C13_TransferStep ==
    \A c \in BagToSet(transfers) :
       (TransferPublished(c) /\ c.pc = "publish")
       => /\ tokens'[c.inst].spent
          /\ Resumed(c, "returned") # {}

\* C13: publish inserts the nullifier into the seen set before it awaits any
\* peer send, and failed sends are tolerated: publish completes without error,
\* the remaining connected peers are sent the message, and the calling
\* transfer() marks the token spent and returns its package.
C13_SendFailureTolerated == [][C13_PublishStep /\ C13_TransferStep]_vars

\* C14: an attestation that timestamp returned is accepted by verify on the
\* same adapter while it is at most 24 hours old, whichever mode and path each
\* of the two calls took.
C14_RoundTrip ==
    (/\ witness.call.op = "verify"
     /\ witness.call.pc = "done"
     /\ witness.call.att = witness.issued
     /\ now - witness.issued.timestamp <= AttestationMaxAge)
    => witness.call.result = "true"

\* C18: once an init of the Witness adapter has found the gateway unreachable,
\* no later call of that adapter sends a request to the gateway ...
C18_FallbackStep ==
    (/\ witness.unreachableSeen
     /\ witness.call.pc = "request"
     /\ witness'.call.pc = "done")
    => ~witness'.call.asked

\* ... and the adapter never posts to the gateway's /v1/verify an attestation
\* that it simulated itself.
C18_OwnFallbackStaysLocal ==
    ~(/\ witness.call.op = "verify"
      /\ witness.call.pc = "done"
      /\ witness.call.att = witness.issued
      /\ witness.issued.raw.form = "none"
      /\ witness.call.asked)

C18_NoModeMixing == [][C18_FallbackStep]_vars /\ []C18_OwnFallbackStaysLocal

\* The first of a set of issuers, in the order of issuerEndpoints.
FirstOf(S) == CHOOSE i \in S : \A j \in S : i <= j

\* C17: an issueToken call that had a blind state and a reachable issuer
\* returns the token of the first issuer whose response passed its DLEQ check,
\* and fails with an error when no response did; the simulated token is
\* returned only without a blind state or without a reachable issuer.
C17_FirstValidOrError ==
    \A k \in Callers :
       LET c == freebird.calls[k]
       IN  (c.op = "issueToken" /\ c.pc = "done") =>
              /\ (c.state /\ c.reached # {} /\ c.valid # {}) =>
                    (c.result.kind = "token" /\ c.result.from = {FirstOf(c.valid)})
              /\ (c.state /\ c.reached # {} /\ c.valid = {}) =>
                    c.result.kind = "error"
              /\ c.result.kind = "fallback" => (~c.state \/ c.reached = {})

\* C16: receive returns a token only when witness.verify accepted the proof
\* and, for a package with an ownership proof, freebird.verifyToken accepted
\* it; a call that threw created no token; the token returned is unspent and
\* has the package's id and amount and the recipient's secret.
C16_ReceiveChecked ==
    \A r \in BagToSet(receives) :
       /\ r.created <=> r.pc = "returned"
       /\ r.pc = "returned" =>
             /\ WitnessVerify(r.pkg.proof)
             /\ r.pkg.ownershipProof # NoBytes => r.ownershipValid = "true"
             /\ r.token = [id |-> r.pkg.tokenId, amount |-> r.pkg.amount,
                           secret |-> r.secret, spent |-> FALSE]
       /\ r.pc = "threw" =>
             \/ ~WitnessVerify(r.pkg.proof)
             \/ (r.pkg.ownershipProof # NoBytes /\ r.ownershipValid = "false")

C16_Witness ==
    /\ \E r \in BagToSet(receives) :
          /\ r.pc = "returned"
          /\ r.pkg.ownershipProof # NoBytes
          /\ r.token.secret = <<2>>
    /\ \E r \in BagToSet(receives) :
          r.pc = "threw" /\ r.error = "Invalid ownership proof"

\* The federation has attested a spend that carries nullifier n: a transfer()
\* with that nullifier got its attestation from the gateway.
Attested(n) ==
    \E c \in BagToSet(transfers) :
       /\ c.pc \in {"publish", "returned"}
       /\ c.nullifier = n
       /\ hashTransferPackage(transferPkg(c)) \in witness.log

\* C15: when standard validation asks the federation about a nullifier that
\* the federation has attested a spend of, the package is rejected as a proven
\* double-spend with confidence 0.
C15_FederationStep ==
    \A r \in BagToSet(validations) :
       (/\ r.pc = "witnessCheck"
        /\ Attested(r.pkg.nullifier)
        /\ ~BagIn(r, validations')) =>
          \E q \in BagToSet(validations') :
             /\ q.pkg = r.pkg
             /\ q.result = Rejected("Double-spend proven by Witness federation")

C15_FederationRejects == [][C15_FederationStep]_vars

\* peerScoreThreshold as the spam-mitigation test configures it, and the
\* penalty of a message with an invalid proof.
PeerScoreThreshold == -10

InvalidProofPenalty == 10

\* ceil(|threshold| / 10) + 1.
DisconnectAfter ==
    ((0 - PeerScoreThreshold) + InvalidProofPenalty - 1) \div InvalidProofPenalty + 1

InPeerList(p) == \E i \in DOMAIN peerConnections : peerConnections[i] = p

\* C19: a peer that has delivered ceil(|threshold| / 10) + 1 messages with an
\* invalid proof is no longer in the peer list and has no statistics.  Every
\* delivery comes from one of the peers, so once the rejected deliveries
\* outnumber NumPeers * (DisconnectAfter - 1), and no valid message has raised
\* a score, some peer has delivered that many.
C19_SpammerRemoved ==
    (/\ SumCopies(InvalidDone, receiving) > NumPeers * (DisconnectAfter - 1)
     /\ \A n \in Nullifiers : Counted(n) = {})
    => \E p \in Peers : ~InPeerList(p) /\ ~getPeerStats(p).known

\* maxTimestampFuture, in seconds.
MaxTimestampFuture == 5

\* The timestamp window of inbound proofs, at the time of receipt.
OutOfWindow(t) ==
    \/ t > now + MaxTimestampFuture * 1000
    \/ t < now - MaxNullifierAge

\* C20: an inbound nullifier message whose proof.timestamp is outside the
\* window is rejected before witness.verify is called: the invocation ends at
\* receipt, and so inserts and forwards nothing.
C20_WindowStep ==
    \A h \in BagToSet(receiving') :
       (/\ CopiesIn(h, receiving') > CopiesIn(h, receiving)
        /\ BagCardinality(receiving') > BagCardinality(receiving)
        /\ h.msg.type = "nullifier"
        /\ h.msg.proof # NoProof
        /\ OutOfWindow(h.msg.proof.timestamp))
       => h.pc = "done"

\* No record enters the seen set from a message that was outside the window
\* when onReceive inserted it.
C20_InsertStep ==
    \A h \in BagToSet(receiving), f \in FailChoices :
       (OnReceiveVerified(h, f) /\ OutOfWindow(h.msg.proof.timestamp))
       => UNCHANGED <<seenNullifiers, sent>>

C20_TimestampWindow == [][C20_WindowStep /\ C20_InsertStep]_vars


\* The peers that are no longer in the peer list.
RemovedPeers == {p \in Peers : ~InPeerList(p)}

\* C21: once the hostile peers have delivered all their messages, each with
\* an attestation that is rejected, the seen set is empty and at least nine
\* tenths of the peers have been removed from the peer list.
C21_SpamResisted ==
    (/\ SumCopies(InvalidDone, receiving) = MaxDeliveries
     /\ \A h \in BagToSet(receiving) : h.pc = "done")
    => /\ seenNullifiers = <<>>
       /\ 10 * Cardinality(RemovedPeers) >= 9 * NumPeers


-----------------------------------------------------------------------------
\* C22: merge is all-or-nothing.  No state, also none after a failed or
\* abandoned call, has some sources of a merge spent or published and others
\* not: a step marks no source spent and puts no nullifier into the seen
\* set, or it marks exactly the sources of one merge spent and puts exactly
\* their nullifiers into the seen set; a merge that returned has every source
\* spent and every nullifier published; a merged token has the summed amount
\* and no unspent source.

SeenKeys(seen) == {seen[i].key : i \in DOMAIN seen}

MergeKeys(c) == {ToHex(c.nullifiers[i]) : i \in c.sources}

MergeDone(c) ==
    /\ \A i \in c.sources : tokens[i].spent
    /\ MergeKeys(c) \subseteq SeenKeys(seenNullifiers)

C22_MergeStep ==
    LET newlySpent == {i \in Instances : ~tokens[i].spent /\ tokens'[i].spent}
        newlySeen  == SeenKeys(seenNullifiers') \ SeenKeys(seenNullifiers)
    IN  \/ newlySpent = {} /\ newlySeen = {}
        \/ \E c \in BagToSet(merges) :
              /\ newlySpent = c.sources
              /\ newlySeen = MergeKeys(c)
              /\ Cardinality(newlySeen) = Cardinality(c.sources)

-----------------------------------------------------------------------------
\* C23: for a time-locked package with timelock T, a claim succeeds only at
\* an instant before T and a refund only at an instant from T on, so no
\* instant has both a successful claim and a successful refund; and no
\* time-locked package exists without a refund key.

C23_TimeLock ==
    \A h \in BagToSet(htlcs) :
       /\ h.pc = "locked" => h.refundKey # NoBytes
       /\ h.pc = "threw" => h.attempts = {}
       /\ \A a \in h.attempts :
             a.ok => IF a.op = "receive" THEN a.at < h.timelock
                     ELSE a.at >= h.timelock
       /\ \A a, b \in h.attempts :
             (a.ok /\ b.ok /\ a.op = "receive" /\ b.op = "refund")
                => a.at # b.at

\* A package was claimed before its expiry, claimed in vain at the expiry and
\* refunded at that instant.
C23_Witness ==
    \E h \in BagToSet(htlcs) :
       /\ h.timelock = 1
       /\ h.refundKey # NoBytes
       /\ [op |-> "receive", at |-> 0, ok |-> TRUE] \in h.attempts
       /\ [op |-> "receive", at |-> 1, ok |-> FALSE] \in h.attempts
       /\ [op |-> "refund", at |-> 1, ok |-> TRUE] \in h.attempts


-----------------------------------------------------------------------------
\* C24: the disconnect() call leaves the adapter without peer wrappers, and
\* every send made after it on a wrapper created before it fails with the
\* 'not connected' error: none is silently dropped.

C24_DisconnectStep ==
    (~transport.disconnected /\ transport'.disconnected)
       => transport'.peerWrappers = {}

C24_SendsRejected ==
    (transport.lastSend.afterDisconnect /\ transport.lastSend.early)
       => transport.lastSend.result = "not connected"

C24_ClosedTransportRejects ==
    [][C24_DisconnectStep]_vars /\ []C24_SendsRejected


-----------------------------------------------------------------------------
\* C25: messages of one peer take effect in their arrival order: of two
\* invocations of onReceive that await witness.verify, only one, the earlier,
\* can resume and apply its effects.

C25_ArrivalOrder ==
    \A h1, h2 \in BagToSet(receiving) :
       (h1 # h2 /\ h1.pc = "verify" /\ h2.pc = "verify")
          => ~(/\ ENABLED OnReceiveVerified(h1, {})
               /\ ENABLED OnReceiveVerified(h2, {}))


-----------------------------------------------------------------------------
\* C26: in a connected network whose nodes accept the attestation, with every
\* sent message eventually delivered and handled, a nullifier that is in the
\* seen set of one node is eventually in the seen set of every node.

NetHas(i, n) == network.seen[i][n] > 0

C26_EventualConsistency ==
    \A n \in NetNullifiers :
       (\E i \in Nodes : NetHas(i, n)) ~> (\A i \in Nodes : NetHas(i, n))

\* The nullifier has reached every node, nothing is in flight, and the node
\* in the middle has heard it again from a neighbour.
C26_Witness ==
    \E n \in NetNullifiers :
       /\ \A i \in Nodes : NetHas(i, n)
       /\ network.inflight = {} /\ network.handling = {}
       /\ network.seen[2][n] > 1


-----------------------------------------------------------------------------
\* C27: validateTransfer goes through its tiers in the order age gate, gossip
\* check, federation check, attestation verification, propagation wait with
\* re-check, confidence threshold.  It returns at the first tier that rejects
\* with that tier's reason, reports confidence 0 for every rejection but the
\* threshold's, and sleeps only after the first four tiers passed.

TierOf(reason) ==
    CASE reason = "Token expired" -> 1
      [] reason = "Double-spend detected in gossip network" -> 2
      [] reason = "Double-spend proven by Witness federation" -> 3
      [] reason = "Invalid Witness attestation" -> 4
      [] reason = "Double-spend detected during propagation wait" -> 5
      [] reason = "Confidence below threshold" -> 6
      [] reason = "Transfer validated successfully" -> 7
      [] OTHER -> 0

\* The run returned with the verdict of one of the given tiers.
ReturnedAt(r, tiers) ==
    /\ r.pc = Returned(r.mode)
    /\ TierOf(r.result.reason) \in tiers
    /\ TierOf(r.result.reason) <= 5 =>
          ~r.result.valid /\ r.result.confidence = Zero
    /\ TierOf(r.result.reason) = 6 =>
          ~r.result.valid /\ DoubleLt(r.result.confidence, minConfidence)
    /\ TierOf(r.result.reason) = 7 =>
          r.result.valid /\ ~DoubleLt(r.result.confidence, minConfidence)

Pending(r, pc) == r.pc = pc /\ r.result = NoResult

C27_TierStep ==
    LET before == BagToSet(validations)
        after  == BagToSet(validations')
    IN  (after # before /\ \A r \in after : r.mode # "fast") =>
        \E r2 \in after :
           IF before = {}
           THEN LET old   == ageExpired(r2.pkg)
                    spent == exceedsThreshold(checkNullifier(r2.pkg.nullifier))
                IN  \/ old /\ ReturnedAt(r2, {1})
                    \/ ~old /\ spent /\ ReturnedAt(r2, {2})
                    \/ ~old /\ ~spent /\ Pending(r2, "witnessCheck")
           ELSE LET r1 == CHOOSE r \in before : TRUE
                IN  CASE r1.pc = "witnessCheck" ->
                           \/ ReturnedAt(r2, {3})
                           \/ Pending(r2, "verify")
                      [] r1.pc = "verify" ->
                           \/ ~WitnessVerify(r1.pkg.proof) /\ ReturnedAt(r2, {4})
                           \/ /\ WitnessVerify(r1.pkg.proof)
                              /\ IF waitTime > 0 THEN Pending(r2, "sleep")
                                 ELSE ReturnedAt(r2, {6, 7})
                      [] r1.pc = "sleep" -> ReturnedAt(r2, {5, 6, 7})
                      [] r1.pc = "restore" ->
                           r2.pc = "done" /\ r2.result = r1.result
                      [] OTHER -> FALSE

C27_TierOrder == [][C27_TierStep]_vars

\* A run slept and was rejected by the re-check after the wait.
C27_Witness ==
    \E r \in BagToSet(validations) :
       /\ r.mode = "standard"
       /\ r.pc = "done"
       /\ TierOf(r.result.reason) = 5
       /\ r.result.confidence = Zero
       /\ Len(peerConnections) = ValPeers


-----------------------------------------------------------------------------
\* C28: right after a sweep no entry is older than the age limit and the seen
\* set has at most max_nullifiers entries; when the cap evicts, exactly the
\* excess over max_nullifiers is removed and no removed entry is newer than a
\* kept one.

Entries(seen) == {seen[i] : i \in DOMAIN seen}

Fresh(seen, cutoff) == {r \in Entries(seen) : r.firstSeen >= cutoff}

\* What a sweep of seen at time t must leave, given what it left.
SweepPost(seen, t, left) ==
    LET fresh == Fresh(seen, t - SweepAge)
        kept  == Entries(left)
    IN  /\ Cardinality(kept) = Len(left)
        /\ kept \subseteq fresh
        /\ Len(left) <= MaxNullifiers
        /\ IF Cardinality(fresh) > MaxNullifiers
           THEN /\ Cardinality(fresh \ kept) =
                      Cardinality(fresh) - MaxNullifiers
                /\ \A r \in fresh \ kept, k \in kept :
                      r.firstSeen <= k.firstSeen
           ELSE kept = fresh

SweepOf(seen, t) == PruneByCap(PruneByAge(seen, t - SweepAge))

C28_SweepStep ==
    (pruned' # pruned \/ Len(seenNullifiers') < Len(seenNullifiers))
       => /\ seenNullifiers' = SweepOf(seenNullifiers, now)
          /\ SweepPost(seenNullifiers, now, seenNullifiers')

C28_SweepLeaves ==
    /\ [](SweepPost(seenNullifiers, now, SweepOf(seenNullifiers, now)))
    /\ [][C28_SweepStep]_vars

\* A sweep at time 2 evicted one of two entries that were both young enough;
\* the entry kept was first seen at time 2.
C28_Witness ==
    /\ now = 2
    /\ pruned = [byAge |-> 0, byCap |-> 1]
    /\ Len(seenNullifiers) = 1
    /\ seenNullifiers[1].firstSeen = 2


-----------------------------------------------------------------------------
\* C29: checkNullifier(n) is 0 for a nullifier that is not in the seen set and
\* min(peer_count / max(peers in the peer list, 1), 1) for one that is; it
\* lies within [0, 1], stays the same while only the clock advances, and a
\* validation that calls it leaves the gossip state as it was.

C29_Value(n) ==
    LET c   == checkNullifier(n)
        den == IF Len(peerConnections) > 1 THEN Len(peerConnections) ELSE 1
        at  == {i \in DOMAIN seenNullifiers : seenNullifiers[i].key = ToHex(n)}
    IN  /\ c[2] > 0 /\ 0 <= c[1] /\ c[1] <= c[2]
        /\ at = {} => c[1] = 0
        /\ \A i \in at :
              LET count == seenNullifiers[i].peerCount
              IN  c[1] * den = (IF count < den THEN count ELSE den) * c[2]

C29_Step ==
    /\ (seenNullifiers' = seenNullifiers /\ peerConnections' = peerConnections)
          => \A n \in Nullifiers : checkNullifier(n)' = checkNullifier(n)
    /\ validations' # validations => UNCHANGED gossipVars

C29_CheckNullifier ==
    /\ [](\A n \in Nullifiers : C29_Value(n))
    /\ [][C29_Step]_vars

\* A nullifier reported by three of the ten peers, in a record older than
\* now, was checked by a validation that went on to the federation.
C29_Witness ==
    /\ Len(peerConnections) = 10
    /\ checkNullifier(ValNullifier) = <<3, 10>>
    /\ seenNullifiers[1].firstSeen < now
    /\ \E r \in BagToSet(validations) :
          r.pc = "witnessCheck" /\ r.pkg.nullifier = ValNullifier


-----------------------------------------------------------------------------
\* C30: when onReceive resumes with an accepted message, a first sighting is
\* forwarded to every peer of the node except the one the message came from,
\* and a repeated sighting is forwarded to nobody.

C30_ForwardStep ==
    \A m \in network.handling \ network'.handling :
       LET forwarded == network'.inflight \ network.inflight
       IN  IF network.seen[m.to][m.n] = 0
           THEN forwarded =
                   {NetMsg(m.to, j, m.n) : j \in neighbours(m.to) \ {m.from}}
           ELSE forwarded = {}

C30_ForwardToOthers == [][C30_ForwardStep]_vars


-----------------------------------------------------------------------------
\* C31: when issueToken(b) has finished, the blind-state table has no entry
\* for b and its other entries are as they were; entries are added only by the
\* blind call for its own value and removed only by issueToken for its own.

C31_TableStep ==
    LET before == freebird.blindStates
        after  == freebird'.blindStates
        ends(k) == freebird.calls[k].pc # "done" /\ freebird'.calls[k].pc = "done"
    IN  \/ \E k \in Callers :
              /\ ends(k)
              /\ IF freebird.calls[k].op = "issueToken"
                 THEN after = before \ {ToHex(freebird.calls[k].blinded)}
                 ELSE before \subseteq after
                      /\ after \subseteq
                            before \cup {ToHex(freebird'.calls[k].blinded)}
        \/ (\A k \in Callers : ~ends(k)) /\ after = before

C31_IssuedLeavesTable ==
    \A k \in Callers :
       LET c == freebird.calls[k]
       IN  (c.op = "issueToken" /\ c.pc = "done")
              => ToHex(c.blinded) \notin freebird.blindStates

C31_BlindStateRemoved == []C31_IssuedLeavesTable /\ [][C31_TableStep]_vars

\* issueToken of a blinded value that had its state and got no valid response
\* has returned the simulated token; the other value's state is still there.
C31_Witness ==
    \E k \in Callers :
       LET c == freebird.calls[k]
       IN  /\ c.op = "issueToken" /\ c.pc = "done"
           /\ c.blinded = <<7>>
           /\ c.state /\ c.reached # {} /\ c.valid = {}
           /\ freebird.blindStates = {ToHex(<<8>>)}


-----------------------------------------------------------------------------
\* C32: right after reset(), get(k) is the shipped default for every key path
\* k, nested ones too, whatever was set before; and the contents of
\* DEFAULT_CONFIG are never changed.

DefaultsIntact ==
    Stringify(DEFAULT_CONFIG, cliConfig.heap) = ShippedDefaults

C32_ResetRestoresDefaults ==
    /\ DefaultsIntact
    /\ cliConfig.last = "reset" =>
          \A k \in ConfigPaths : configGet(cliConfig, k) = defaultGet(k)


-----------------------------------------------------------------------------
\* The transfer() calls of instance i that returned a package.
ReturnedBy(i) ==
    LET S == {c \in BagToSet(transfers) : c.inst = i /\ c.pc = "returned"}
    IN  BagCardinality([c \in S |-> CopiesIn(c, transfers)])

\* The nullifiers a transfer of instance i can derive, with or without the
\* time hashed in.
NullifiersOf(i) ==
    {Hash(<<Bytes(tokens[i].secret), Str(tokens[i].id)>>)}
    \cup {generateNullifier(tokens[i].secret, tokens[i].id, t) : t \in 0..MaxTime}

SeenOf(i) ==
    {k \in DOMAIN seenNullifiers : seenNullifiers[k].nullifier \in NullifiersOf(i)}

\* C33: of the transfer() calls on one token instance, overlapping or not, at
\* most one returns a transfer package, and the local seen set holds at most
\* one nullifier of that token.
C33_OneTransferWins ==
    \A i \in Instances :
       /\ ReturnedBy(i) <= 1
       /\ Cardinality(SeenOf(i)) <= 1


-----------------------------------------------------------------------------
\* The amount in unspent tokens that receive() returned.
RECURSIVE SumReceived(_)
SumReceived(S) ==
    IF S = {} THEN 0
    ELSE LET r == CHOOSE x \in S : TRUE
         IN  (IF r.created /\ ~r.token.spent
              THEN r.token.amount * CopiesIn(r, receives) ELSE 0)
             + SumReceived(S \ {r})

ReceivedUnspent == SumReceived(BagToSet(receives))

\* The amount of the tokens that transfer() marked spent.
RECURSIVE SumSpent(_)
SumSpent(S) ==
    IF S = {} THEN 0
    ELSE LET i == CHOOSE j \in S : TRUE
         IN  (IF tokens[i].spent THEN tokens[i].amount ELSE 0)
             + SumSpent(S \ {i})

SpentByTransfer == SumSpent(Instances)

\* C34: whatever transfers and receives have run, receive more than once on
\* one package included, the amount held in unspent received tokens is at most
\* the amount of the tokens spent by transfer.
C34_NoValueCreated == ReceivedUnspent <= SpentByTransfer


-----------------------------------------------------------------------------
\* The hash of the fields of a package, as hashTransferPackage takes them.
PkgHash(pkg) ==
    hashTransferPackage([tokenId |-> pkg.tokenId, amount |-> pkg.amount,
                         commitment |-> pkg.commitment,
                         nullifier |-> pkg.nullifier])

\* C35: receive returns a token only for a package whose hash is the hash in
\* its attestation, so a package whose amount was changed after the Witness
\* timestamped it yields no token.
C35_ReceiveBindsPackage ==
    \A r \in BagToSet(receives) :
       r.created => PkgHash(r.pkg) = r.pkg.proof.hash


-----------------------------------------------------------------------------
\* The step makes the transfer() call c throw.
Throws(c) ==
    /\ c.pc \in {"blind", "ownership", "timestamp", "publish"}
    /\ CopiesIn(c, transfers') < CopiesIn(c, transfers)
    /\ Resumed(c, "threw") # {}

\* A transfer() that throws leaves the tokens as they are and the seen set
\* without anything of its own: a call that fails inside gossip.publish, which
\* it entered with its nullifier unseen, leaves the nullifier unseen.
C36_FailStep ==
    \A c \in BagToSet(transfers) :
       Throws(c)
       => /\ tokens' = tokens
          /\ IF c.pc = "publish"
             THEN ~Has(seenNullifiers', ToHex(c.nullifier))
             ELSE seenNullifiers' = seenNullifiers

\* C36: when transfer() fails at Freebird, at the Witness or in
\* gossip.publish, the token stays unspent and the seen set is as it was
\* before the call, so the token's nullifier can still be published.
C36_FailedTransferLeavesNoTrace == [][C36_FailStep]_vars


-----------------------------------------------------------------------------
\* No validator call is in progress.
ValidatorIdle == \A r \in BagToSet(validations) : r.pc = "done"

\* The validator is back at the wait time it was configured with whenever no
\* call is in progress.
C37_Restored == ValidatorIdle => waitTime = DefaultWaitTime

\* A validateTransfer call that was not made by deepValidate reads the
\* configured wait time when it decides to sleep and when it scores.
C37_StandardStep ==
    \A r \in BagToSet(validations) :
       (r.mode = "standard" /\ (ValidateVerified(r) \/ ValidateWoke(r)))
       => waitTime = DefaultWaitTime

\* C37: the wait of deepValidate(pkg, w) applies to its own run only: once the
\* calls are over the configured wait time is back, and a validateTransfer
\* that overlaps a deepValidate waits and scores with the configured wait.
C37_DeepWaitIsLocal == []C37_Restored /\ [][C37_StandardStep]_vars


-----------------------------------------------------------------------------
\* The reasons of an acceptance and of a rejection.
AcceptReasons == {"Transfer validated successfully", "Fast validation passed"}

RejectReasons ==
    {"Token expired", "Double-spend detected in gossip network",
     "Double-spend proven by Witness federation", "Invalid Witness attestation",
     "Double-spend detected during propagation wait",
     "Confidence below threshold", "Double-spend detected in gossip",
     "Insufficient confidence without wait period"}

\* The runs that have their ValidationResult.
Decided == {r \in BagToSet(validations) : r.pc \in {"restore", "done"}}

\* The runs that get their ValidationResult in this step.
NewlyDecided ==
    {r \in BagToSet(validations') :
       /\ r.pc \in {"restore", "done"}
       /\ CopiesIn(r, validations') > CopiesIn(r, validations)
       /\ \A q \in BagToSet(validations) :
             CopiesIn(q, validations') < CopiesIn(q, validations)
             => q.pc # "restore"}

\* Whatever the threshold: the confidence is between 0 and 1, a valid result
\* has the reason of an acceptance and a verified attestation, an invalid one
\* the reason of a rejection.
C38_Shape ==
    \A r \in Decided :
       /\ ~DoubleLt(r.result.confidence, Zero)
       /\ ~DoubleLt(One, r.result.confidence)
       /\ r.result.valid =>
             /\ r.result.reason \in AcceptReasons
             /\ WitnessVerify(r.pkg.proof)
       /\ ~r.result.valid => r.result.reason \in RejectReasons

\* A result is valid only with a confidence of at least the threshold that is
\* set when it is returned, and a scored result below it is invalid.
C38_ThresholdStep ==
    \A r \in NewlyDecided :
       /\ r.result.valid => ~DoubleLt(r.result.confidence, minConfidence)
       /\ (~r.result.valid /\ DoubleLt(Zero, r.result.confidence))
             => DoubleLt(r.result.confidence, minConfidence)

\* C38: every ValidationResult of validateTransfer, fastValidate and
\* deepValidate has a confidence between 0 and 1; a valid one was rejected by
\* no tier (its attestation verifies and its reason is that of an acceptance)
\* and has confidence >= min_confidence, whatever setMinConfidence made of
\* the threshold; an invalid one carries the reason of a rejection.
C38_ResultWellFormed == []C38_Shape /\ [][C38_ThresholdStep]_vars

\* After setMinConfidence(0.5) a validation on one peer returned valid with a
\* confidence below the default threshold.
C38_Witness ==
    \E r \in Decided :
       /\ r.result.valid
       /\ DoubleLt(r.result.confidence, MinConfidence)
       /\ ~DoubleLt(r.result.confidence, minConfidence)
       /\ Len(peerConnections) = 1


-----------------------------------------------------------------------------
\* The entries that the age sweep of this moment removes.
AgedOut ==
    {i \in DOMAIN seenNullifiers :
       seenNullifiers[i].firstSeen < now - MaxNullifierAge}

\* A run of the prune timer removes for age only entries whose attestation the
\* validator's age gate rejects at that moment.
C39_SweepStep ==
    Prune =>
       \A i \in AgedOut :
          ageExpired([nullifier |-> seenNullifiers[i].nullifier,
                      proof |-> seenNullifiers[i].proof])

\* C39: with the sweep's age limit and the validator's max token age at their
\* defaults, which are equal, every entry that the age sweep removes has an
\* attestation older than the validator's limit, so that a package with the
\* pruned nullifier and that attestation is rejected as expired.
C39_SweepCoveredByAgeGate == [][C39_SweepStep]_vars


-----------------------------------------------------------------------------
\* The messages that node i sends in this step.
NetSentBy(i) == {m \in network'.inflight \ network.inflight : m.from = i}

\* A node broadcasts a nullifier only in the step that inserts it into the
\* node's seen set, and an inserted nullifier stays.
C40_BroadcastStep ==
    \A i \in Nodes, n \in NetNullifiers :
       /\ (\E m \in NetSentBy(i) : m.n = n)
          => network.seen[i][n] = 0 /\ network'.seen[i][n] = 1
       /\ network.seen[i][n] > 0 => network'.seen[i][n] > 0

\* Nothing is in flight and no handler is suspended.
NetQuiet == network.inflight = {} /\ network.handling = {}

\* C40: while nothing is pruned, a node broadcasts a given nullifier at most
\* once, at its first sighting, so that n nodes make at most n broadcasts of
\* it, and the gossip ends: from some moment on no message is in flight.
C40_GossipTerminates == [][C40_BroadcastStep]_vars /\ <>[]NetQuiet

\* Every node has the nullifier, the publisher and the node in the middle have
\* heard it again without sending it again, and the network is quiet.
C40_Witness ==
    \E n \in NetNullifiers :
       /\ network.seen[1][n] = 2
       /\ network.seen[2][n] = 2
       /\ network.seen[3][n] = 1
       /\ NetQuiet

=============================================================================
